---- MODULE Spec2Model ----
(***************************************************************************)
(* A model of buddy-bot's message orchestration engine:                    *)
(*   buffer.py     MessageBuffer (trailing-edge debounce)                  *)
(*   main.py       BuddyBot.on_message / _processing_loop                  *)
(*   processor.py  MessageProcessor.process / _process_impl                *)
(*   history.py    HistoryStore (turns, fallback_context)                  *)
(*                                                                         *)
(* Every action is one atomic step of the asyncio event loop: the code     *)
(* that runs between two suspension points (await) of a coroutine, or one  *)
(* SQL statement sequence run by a worker thread.                          *)
(***************************************************************************)
EXTENDS Integers, Sequences, FiniteSets, TLC

\* ------------------------------------------------------------------ bounds
MaxEvents == 2          \* events handed to the bot (on_message) in one run
MaxAdds == 3            \* events added in the timed buffer specification
MaxTime == 6            \* clock ticks of the timed buffer specification
DebounceDelay == 2      \* debounce_delay, in clock ticks (a setting)
MaxCalls == 3           \* direct process() calls of the processor specification
MaxStoreOps == 4        \* store calls of the store specification
MaxStoreErrors == 1     \* store calls that raise in one run of the program

\* -------------------------------------------------------- program constants
MaxFailures == 3        \* main.py: if consecutive_failures >= 3

Chats == {"A", "B"}
TestChat == "A"
Direct == {"d1", "d2", "d3"}        \* callers of process() besides the chat tasks
Callers == Chats \cup Direct
Workers == {"w1", "w2"}             \* worker threads of asyncio.to_thread
LlmTexts == {"r1"}                      \* texts the backend may answer
None == "None"                      \* Python's None where a text is expected
NoRow == <<>>                       \* Python's None where a stdout row is expected
ToolNames == {"echo", "fail"}                  \* tool names that get registered
CallNames == ToolNames \cup {"nonexistent"}    \* names dispatch is called with
NoEntry == "None"                              \* self._tools.get(name) without an entry
\* _call_with_tools before it is called
NoDialog ==
    [pc |-> "idle", round_num |-> 0, api_calls |-> 0, messages |-> <<>>, text_parts |-> <<>>,
     tool_uses |-> <<>>, tool_results |-> <<>>, ret |-> <<>>]
\* retry_with_backoff before its call: no exception, no state
NoExc == [type |-> "None", n |-> 0]
NoRetry ==
    [pc |-> "idle", max_retries |-> 0, backoff_base |-> 0, backoff_max |-> 0,
     retriable |-> "default", attempt |-> 0, invocations |-> 0, errors |-> <<>>,
     sleeps |-> <<>>, ret |-> "None", exc |-> NoExc, wrapped |-> FALSE, attempts |-> 0]
\* the Telegram application before create_application
NoGate ==
    [built |-> FALSE, voice |-> FALSE, updates |-> <<>>, reactions |-> <<>>,
     replies |-> <<>>, on_message |-> <<>>]
\* split_message before its call
NoSplit == [pc |-> "idle", input |-> <<>>, max_length |-> 0, text |-> <<>>, chunks |-> <<>>]
\* _api_call before its call
NoApi ==
    [pc |-> "idle", attempt |-> 0, attempts |-> 0, errors |-> <<>>, sleeps |-> <<>>,
     exc |-> NoExc]
\* the todo store and the shared chat_id_ref of a new BuddyBot
NoTodo ==
    [chat_id_ref |-> "default", cycle |-> [c \in Chats |-> "idle"], todos |-> <<>>,
     next_id |-> 1, calls |-> <<>>]
\* a ClaudeExecutor before its first cycle
NoExec ==
    [pc |-> "idle", cycles |-> 0, lines |-> <<>>, result_text |-> <<>>, session_id |-> "None",
     resumes |-> 0, resumed |-> "none", saved |-> <<>>, sent |-> <<>>, fallbacks |-> 0,
     last |-> "none"]
Apology == "I'm having trouble right now, please try again later."

VARIABLES
    \* MessageBuffer, one per chat (main.py _buffers)
    buffers,        \* chat -> [events: Seq(Event), event: BOOLEAN]
    nextId,         \* id (arrival number) of the next incoming event
    \* timed buffer specification: the clock and the single consumer
    now, deadline, cpc, calledAt, returned, addTimes, gapsOK,
    \* BuddyBot
    tasks,          \* chat -> "none" | "running" | "done"   (main.py _tasks)
    live,           \* chat -> the number of _processing_loop tasks created for
                    \* the chat that have not finished
    pc,             \* caller -> position in _processing_loop / process
    batch,          \* caller -> the events of the cycle (local `events`)
    consecutive_failures,
    shutdown_event,
    sdpc,           \* position of the shutdown() coroutine
    closed,         \* the clients and stores shutdown() has closed
    ingress,        \* Telegram still hands updates to on_message
    \* MessageProcessor
    locks,          \* chat -> [locked: BOOLEAN, waiters: Seq(caller)]
    pchat,          \* caller -> chat_id argument of process()
    fallback,       \* caller -> local `fallback` of _process_impl
    prompt,         \* caller -> the prompt built for the cycle
    response,       \* caller -> response text of the driver
    sent,           \* chat -> Seq of messages given to send_message
    calls,          \* number of direct process() calls made
    typing,         \* caller -> the typing loop of its cycle is running
    \* HistoryStore (one sqlite connection)
    db,             \* [turns: Seq(Turn), fallback_context: set of [chat_id, stdout]]
    storeErrors,    \* number of store calls that raised so far
    \* store specification: the worker threads and what they saved and got
    wpc, wchat, wrow, wret, storeOps, saved, got,
    \* ToolRegistry
    tools,          \* self._tools: registered name -> handler
    dispatched,     \* the last dispatch call: its name, input and outcome
    \* MessageProcessor._call_with_tools, one call
    dialog,         \* its position, round_num, messages and the locals of the round
    \* retry_with_backoff, one call
    retry,          \* its arguments, loop position, the sleeps made and its outcome
    \* split_message, one call
    split,          \* its arguments, the remaining text and the chunks so far
    \* MessageProcessor._api_call, one call
    api,            \* its loop position, the attempts and sleeps made, its outcome
    \* the todo tools (tools/todo.py) over the TodoStore
    todo,           \* chat_id_ref, the chats in a cycle, the todos table, the calls made
    \* the CLI executor (executor.py)
    exec,           \* the cycle of ClaudeExecutor._process_impl and what it saved and sent
    \* the handlers of create_application
    gate,           \* the updates handled and the reactions, replies and
                    \* on_message calls they made
    oplog,          \* the store calls of the sequential caller, with what each returned
    \* history of the run (what the claims speak about)
    attempts,       \* event id -> number of process() calls it was passed to,
                    \* while it is pending (0 again once it is answered or dropped)
    arrived,        \* chat -> ids added by on_message since the last drain
    taken,          \* chat -> the value of `arrived` at the last drain, while
                    \* the cycle of that drain runs
    sentAtDrain,    \* chat -> Len(sent[chat]) when the current/last cycle began
    exitReason,     \* chat -> why the task last returned: "none"|"empty"|"drop"
    lastCycle       \* chat -> the last finished process(): its batch (if it failed) and its
                    \* result, "none" | "ok" | "failed" (raised), in the loop
                    \* "requeued" or "dropped"; streak: the failed cycles in a
                    \* row up to it; cleared: the last success came after
                    \* two failed cycles in a row

bufVars == <<buffers, nextId>>
timeVars == <<now, deadline, cpc, calledAt, returned, addTimes, gapsOK>>
botVars == <<tasks, live, pc, batch, consecutive_failures, shutdown_event>>
procVars == <<locks, pchat, fallback, prompt, response, sent, calls>>
storeVars == <<db, storeErrors>>
workerVars == <<wpc, wchat, wrow, wret, storeOps, saved, got, oplog>>
histVars == <<attempts, arrived, taken, sentAtDrain, exitReason, lastCycle>>
shutVars == <<sdpc, closed, ingress>>
toolVars == <<tools, dispatched>>
unitVars == <<dialog, retry, gate, split, api, todo, exec>>
vars == <<toolVars, unitVars, bufVars, timeVars, botVars, procVars, storeVars, workerVars, histVars,
          shutVars, typing>>

\* ------------------------------------------------------------- helpers
Range(s) == {s[i] : i \in 1..Len(s)}
Ids(s) == {s[i].id : i \in 1..Len(s)}
Count(s, x) == Cardinality({i \in 1..Len(s) : s[i] = x})
Event(n, c) == [id |-> n, chat_id |-> c]

\* ------------------------------------------------------ buffer.py
\* MessageBuffer.__init__
NewBuffer == [events |-> <<>>, event |-> FALSE]

\* MessageBuffer.add: self._events.append(event); self._event.set()
BufAdd(b, e) == [events |-> Append(b.events, e), event |-> TRUE]

\* MessageBuffer.append: self._events.extend(events); if events: self._event.set()
BufAppend(b, es) == [events |-> b.events \o es,
                     event |-> IF es # <<>> THEN TRUE ELSE b.event]

\* wait_and_drain, top of the debounce loop: self._event.clear()
BufClear(b) == [b EXCEPT !.event = FALSE]

\* wait_and_drain under the lock: events = self._events[:]
BufTakeNoClear(b) == [events |-> b.events, event |-> FALSE]
BufDrainedKeepLast(b) ==
    [events |-> IF b.events = <<>> THEN <<>> ELSE <<b.events[Len(b.events)]>>, event |-> FALSE]
BufDrained(b) == [events |-> <<>>, event |-> FALSE]

\* MessageBuffer.is_empty
BufIsEmpty(b) == Len(b.events) = 0

\* ------------------------------------------------------ prompt.py
\* The text of an event, e.get("text", ""): events are told apart by their id.
Texts(es) == [i \in 1..Len(es) |-> es[i].id]

\* build_prompt: the sections that depend on the cycle. The history section is
\* there when history_turns is non-empty, the fallback section only
\* `if fallback_text:`.
NoPrompt == [chat_id |-> None, history |-> <<>>, events |-> <<>>, fallback_section |-> NoRow]
BuildPromptNoFallback(c, turns, es, fallback_text) ==
    [chat_id |-> c, history |-> turns, events |-> Texts(es), fallback_section |-> NoRow]
BuildPrompt(c, turns, es, fallback_text) ==
    [chat_id |-> c, history |-> turns, events |-> Texts(es),
     fallback_section |-> IF fallback_text # NoRow THEN fallback_text ELSE NoRow]

\* ------------------------------------------------------ initial state
\* The state after BuddyBot.__init__ / MessageProcessor.__init__ /
\* HistoryStore.__init__: no buffer content, no task, no lock held, empty tables.
\* (A buffer or lock the code creates lazily is modelled by its fresh value.)
Init ==
    /\ buffers = [c \in Chats |-> NewBuffer]
    /\ nextId = 1
    /\ now = 0 /\ deadline = -1 /\ cpc = "idle" /\ calledAt = -1 /\ returned = <<>>
    /\ addTimes = <<>> /\ gapsOK = TRUE
    /\ tasks = [c \in Chats |-> "none"]
    /\ live = [c \in Chats |-> 0]
    /\ pc = [k \in Callers |-> "idle"]
    /\ batch = [k \in Callers |-> <<>>]
    /\ consecutive_failures = [c \in Chats |-> 0]
    /\ shutdown_event = FALSE
    /\ sdpc = "idle" /\ closed = {} /\ ingress = TRUE
    /\ typing = [k \in Callers |-> FALSE]
    /\ locks = [c \in Chats |-> [locked |-> FALSE, waiters |-> <<>>]]
    /\ pchat = [k \in Callers |-> IF k \in Chats THEN k ELSE TestChat]
    /\ fallback = [k \in Callers |-> NoRow]
    /\ prompt = [k \in Callers |-> NoPrompt]
    /\ response = [k \in Callers |-> None]
    /\ sent = [c \in Chats |-> <<>>]
    /\ calls = 0
    /\ db = [turns |-> <<>>, fallback_context |-> {}]
    /\ storeErrors = 0
    /\ wpc = [w \in Workers |-> "idle"]
    /\ wchat = [w \in Workers |-> TestChat]
    /\ wrow = [w \in Workers |-> NoRow]
    /\ wret = [w \in Workers |-> NoRow]
    /\ storeOps = 0 /\ saved = 0 /\ got = <<>> /\ oplog = <<>>
    /\ tools = [n \in CallNames |-> NoEntry] /\ dispatched = <<>>
    /\ dialog = NoDialog
    /\ retry = NoRetry
    /\ gate = NoGate
    /\ split = NoSplit
    /\ exec = NoExec
    /\ todo = NoTodo
    /\ api = NoApi
    /\ attempts = [n \in 1..MaxEvents |-> 0]
    /\ arrived = [c \in Chats |-> {}]
    /\ taken = [c \in Chats |-> {}]
    /\ sentAtDrain = [c \in Chats |-> 0]
    /\ exitReason = [c \in Chats |-> "none"]
    /\ lastCycle = [c \in Chats |-> [result |-> "none", batch |-> <<>>, stored |-> FALSE,
                                     streak |-> 0, cleared |-> FALSE]]

\* =====================================================================
\* SpecBuffer: one MessageBuffer, producers calling add, and a single
\* consumer calling wait_and_drain again and again, on a discrete clock.
\* The event loop runs a coroutine that has become runnable before the
\* clock advances (Tick is disabled while the consumer can take a step).
\* =====================================================================
BufferFrame ==
    UNCHANGED <<toolVars, unitVars, botVars, procVars, storeVars, workerVars, histVars, shutVars, typing>>

LastAddTime == IF addTimes = <<>> THEN -1 ELSE addTimes[Len(addTimes)]

\* asyncio.wait_for(self._event.wait(), timeout=self._debounce_delay): the timer
ArmNoReset(t) == IF deadline >= 0 THEN deadline ELSE t + DebounceDelay
ArmLate(t) == t + DebounceDelay + 1
Arm(t) == t + DebounceDelay

\* A producer calls add(event) at the current time.
B_Add ==
    /\ nextId <= MaxAdds
    /\ buffers' = [buffers EXCEPT ![TestChat] = BufAdd(@, Event(nextId, TestChat))]
    /\ nextId' = nextId + 1
    /\ addTimes' = Append(addTimes, now)
    /\ gapsOK' = (gapsOK /\ (addTimes = <<>> \/ now - LastAddTime < DebounceDelay))
    /\ UNCHANGED <<now, deadline, cpc, calledAt, returned>>
    /\ BufferFrame

\* The consumer calls wait_and_drain: `await self._event.wait()` returns at
\* once when the signal is set, and the loop clears it and arms the timer.
B_Call ==
    /\ cpc = "idle"
    /\ IF buffers[TestChat].event
         THEN /\ buffers' = [buffers EXCEPT ![TestChat] = BufClear(@)]
              /\ deadline' = Arm(now)
              /\ cpc' = "debounce"
         ELSE /\ cpc' = "wait_event"
              /\ UNCHANGED <<buffers, deadline>>
    /\ calledAt' = now
    /\ UNCHANGED <<nextId, now, returned, addTimes, gapsOK>>
    /\ BufferFrame

\* `await self._event.wait()` (line 23) wakes up: first pass of the loop.
B_Wake ==
    /\ cpc = "wait_event"
    /\ buffers[TestChat].event
    /\ buffers' = [buffers EXCEPT ![TestChat] = BufClear(@)]
    /\ deadline' = Arm(now)
    /\ cpc' = "debounce"
    /\ UNCHANGED <<nextId, now, calledAt, returned, addTimes, gapsOK>>
    /\ BufferFrame

\* wait_for returned because the signal was set within the window: loop again.
B_Renew ==
    /\ cpc = "debounce"
    /\ buffers[TestChat].event
    /\ buffers' = [buffers EXCEPT ![TestChat] = BufClear(@)]
    /\ deadline' = Arm(now)
    /\ UNCHANGED <<nextId, now, cpc, calledAt, returned, addTimes, gapsOK>>
    /\ BufferFrame

\* wait_for raised TimeoutError: break, take the list under the lock, clear
\* list and signal, return. (No suspension between the wake-up and the return:
\* the buffer's lock is never contended with a single consumer.)  A signal set
\* in the very tick the timer expires may lose against the timer.
B_TimeoutDrain ==
    /\ cpc = "debounce"
    /\ now >= deadline
    /\ returned' = Append(returned, [batch |-> buffers[TestChat].events, at |-> now,
                                      called |-> calledAt])
    /\ buffers' = [buffers EXCEPT ![TestChat] = BufDrained(@)]
    /\ deadline' = -1
    /\ cpc' = "idle"
    /\ UNCHANGED <<nextId, now, calledAt, addTimes, gapsOK>>
    /\ BufferFrame

ConsumerRunnable ==
    \/ cpc = "wait_event" /\ buffers[TestChat].event
    \/ cpc = "debounce" /\ (buffers[TestChat].event \/ now >= deadline)

B_Tick ==
    /\ now < MaxTime
    /\ ~ConsumerRunnable
    /\ now' = now + 1
    /\ UNCHANGED <<buffers, nextId, deadline, cpc, calledAt, returned, addTimes, gapsOK>>
    /\ BufferFrame

NextBuffer == B_Add \/ B_Call \/ B_Wake \/ B_Renew \/ B_TimeoutDrain \/ B_Tick

SpecBuffer == Init /\ [][NextBuffer]_vars

\* Number of returned batches that hold event id n.
InBatches(n) == Cardinality({i \in 1..Len(returned) : n \in Ids(returned[i].batch)})
Flat(n) == Cardinality({i \in 1..Len(buffers[TestChat].events) :
                            buffers[TestChat].events[i].id = n})

\* C2: every event passed to add is, at any time, either still in the buffer
\* or in exactly one returned batch, once: none is lost, none returned twice.
C2_ExactlyOnce ==
    \A n \in 1..(nextId - 1) :
        /\ Flat(n) + InBatches(n) = 1
        /\ \A i \in 1..Len(returned) :
              Cardinality({j \in 1..Len(returned[i].batch) : returned[i].batch[j].id = n}) <= 1

\* C2 witness: two batches were returned and one of them holds an event that
\* was added while the consumer was already waiting (a batch of two).
C2_Witness ==
    /\ Len(returned) = 2
    /\ \E i \in 1..2 : Len(returned[i].batch) = 2
    /\ nextId = MaxAdds + 1

AllAdded == [i \in 1..(nextId - 1) |-> Event(i, TestChat)]

\* C3: when every add after the first came less than debounce_delay after the
\* previous one, at most one batch has been returned, it holds all the events in
\* insertion order, and it was returned no sooner than debounce_delay after
\* the latest add.
C3_Debounce ==
    gapsOK =>
        /\ Len(returned) <= 1
        /\ Len(returned) = 1 =>
              /\ returned[1].batch = AllAdded
              /\ returned[1].at - LastAddTime >= DebounceDelay

\* C3 witness: three events, each added within the window of the previous one
\* and not all in the same tick, came back as one batch.
C3_Witness ==
    /\ gapsOK
    /\ Len(returned) = 1
    /\ Len(returned[1].batch) = 3
    /\ addTimes[1] < addTimes[2] /\ addTimes[2] < addTimes[3]

\* =====================================================================
\* history.py: the statements of HistoryStore on its one connection.
\* A statement is atomic (sqlite serialises the calls on a connection);
\* commit() changes nothing another call on the same connection can see.
\* =====================================================================
HistoryTurns == 2       \* the `limit` passed to get_recent_turns (settings.history_turns, 20 by default)

Turn(c, user_text, bot_response) ==
    [chat_id |-> c, user_text |-> user_text, bot_response |-> bot_response]

\* _save_turn_sync: INSERT INTO turns (autoincrement id = position in the log)
InsertTurnTwice(d, c, user_text, bot_response) ==
    [d EXCEPT !.turns = @ \o << [chat_id |-> c, user_text |-> user_text,
                                 bot_response |-> bot_response],
                                [chat_id |-> c, user_text |-> user_text,
                                 bot_response |-> bot_response] >>]
InsertTurn(d, c, user_text, bot_response) ==
    [d EXCEPT !.turns = Append(@, Turn(c, user_text, bot_response))]

\* SelectSeq(s, Test) without a higher-order argument: the turns of chat c, in id order
RECURSIVE TurnsOf(_, _)
TurnsOf(ts, c) ==
    IF ts = <<>> THEN <<>>
    ELSE IF ts[1].chat_id = c THEN <<ts[1]>> \o TurnsOf(Tail(ts), c)
         ELSE TurnsOf(Tail(ts), c)

\* _get_recent_turns_sync: ORDER BY id DESC LIMIT ?, then reversed(rows)
SelectRecentTurnsNewestFirst(d, c, limit) ==
    LET mine == TurnsOf(d.turns, c)
        n == Len(mine)
        k == IF n <= limit THEN n ELSE limit
    IN  [i \in 1..k |-> mine[n - i + 1]]
SelectRecentTurns(d, c, limit) ==
    LET mine == TurnsOf(d.turns, c)
        n == Len(mine)
    IN  IF n <= limit THEN mine ELSE SubSeq(mine, n - limit + 1, n)

\* _save_fallback_sync: INSERT ... ON CONFLICT(chat_id) DO UPDATE SET stdout = excluded.stdout
InsertFallback(d, c, stdout) ==
    [d EXCEPT !.fallback_context = @ \cup {[chat_id |-> c, stdout |-> stdout]}]
UpsertFallback(d, c, stdout) ==
    IF \E r \in d.fallback_context : r.chat_id = c
      THEN [d EXCEPT !.fallback_context =
                 {IF r.chat_id = c THEN [r EXCEPT !.stdout = stdout] ELSE r : r \in @}]
      ELSE [d EXCEPT !.fallback_context = @ \cup {[chat_id |-> c, stdout |-> stdout]}]

\* _get_fallback_sync, first statement: SELECT stdout FROM fallback_context WHERE chat_id = ?
\* and fetchone(): the row's stdout, or None
SelectFallback(d, c) ==
    LET rows == {r \in d.fallback_context : r.chat_id = c}
    IN  IF rows = {} THEN NoRow ELSE (CHOOSE r \in rows : TRUE).stdout

\* _get_fallback_sync / _clear_fallback_sync: DELETE FROM fallback_context WHERE chat_id = ?
DeleteFallbackAndTurns(d, c) ==
    [d EXCEPT !.fallback_context = {r \in @ : r.chat_id # c},
              !.turns = IF @ = <<>> THEN @ ELSE Tail(@)]
DeleteFallback(d, c) == [d EXCEPT !.fallback_context = {r \in @ : r.chat_id # c}]

\* =====================================================================
\* SpecStore: store calls made concurrently; asyncio.to_thread runs each
\* call on a worker thread of the default pool, and the threads share the
\* connection (check_same_thread=False). A thread can be preempted between
\* two statements of one call.
\* =====================================================================
StoreFrame ==
    UNCHANGED <<bufVars, timeVars, toolVars, unitVars, botVars, procVars, histVars, shutVars, typing>>

\* save_fallback(chat_id, stdout) with a value never saved before
S_SaveFallback(w, c) ==
    /\ wpc[w] = "idle"
    /\ storeOps < MaxStoreOps
    /\ db' = UpsertFallback(db, c, <<saved + 1>>)
    /\ UNCHANGED storeErrors
    /\ saved' = saved + 1
    /\ storeOps' = storeOps + 1
    /\ UNCHANGED <<wpc, wchat, wrow, wret, got, oplog>>
    /\ StoreFrame

\* get_fallback(chat_id): the SELECT and `if row is None: return None`
S_GetFallbackSelect(w, c) ==
    /\ wpc[w] = "idle"
    /\ storeOps < MaxStoreOps
    /\ storeOps' = storeOps + 1
    /\ wchat' = [wchat EXCEPT ![w] = c]
    /\ wrow' = [wrow EXCEPT ![w] = SelectFallback(db, c)]
    /\ IF SelectFallback(db, c) = NoRow
         THEN /\ wret' = [wret EXCEPT ![w] = NoRow]
              /\ UNCHANGED wpc
         ELSE /\ wpc' = [wpc EXCEPT ![w] = "delete"]
              /\ UNCHANGED wret
    /\ UNCHANGED <<db, storeErrors, saved, got, oplog>>
    /\ StoreFrame

\* get_fallback(chat_id): the DELETE, commit and `return row["stdout"]`
S_GetFallbackDelete(w) ==
    /\ wpc[w] = "delete"
    /\ db' = DeleteFallback(db, wchat[w])
    /\ wret' = [wret EXCEPT ![w] = wrow[w]]
    /\ got' = Append(got, [chat_id |-> wchat[w], stdout |-> wrow[w]])
    /\ wpc' = [wpc EXCEPT ![w] = "idle"]
    /\ UNCHANGED <<wchat, wrow, storeOps, saved, storeErrors, oplog>>
    /\ StoreFrame

\* clear_fallback(chat_id)
S_ClearFallback(w, c) ==
    /\ wpc[w] = "idle"
    /\ storeOps < MaxStoreOps
    /\ storeOps' = storeOps + 1
    /\ db' = DeleteFallback(db, c)
    /\ UNCHANGED <<wpc, wchat, wrow, wret, saved, got, storeErrors, oplog>>
    /\ StoreFrame

NextStore ==
    \E w \in Workers :
        \/ \E c \in Chats : S_SaveFallback(w, c)
        \/ \E c \in Chats : S_GetFallbackSelect(w, c)
        \/ S_GetFallbackDelete(w)
        \/ \E c \in Chats : S_ClearFallback(w, c)

SpecStore == Init /\ [][NextStore]_vars

\* C10: a fallback value saved once is returned by at most one get_fallback
\* call, whatever the interleaving of the concurrent store calls.
C10_ReturnedAtMostOnce ==
    \A v \in 1..saved :
        Cardinality({i \in 1..Len(got) : got[i].stdout = <<v>>}) <= 1

\* =====================================================================
\* processor.py: MessageProcessor.process and _process_impl, for a caller k
\* (a chat's _processing_loop task, or a direct caller of process()).
\* =====================================================================
ProcFrame ==
    UNCHANGED <<nextId, timeVars, toolVars, unitVars, workerVars, pchat, calls, shutdown_event,
                arrived, shutVars>>
NoStoreError == UNCHANGED storeErrors

\* asyncio.Lock.acquire, fast path: not locked and no waiter queued
CanAcquireAlways(l) == TRUE
CanAcquireGlobal(l) == \A c \in Chats : ~locks[c].locked /\ locks[c].waiters = <<>>
CanAcquire(l) == ~l.locked /\ l.waiters = <<>>

\* asyncio.Lock.release: unlock (the first waiter's future is resolved)
Release(l) == [l EXCEPT !.locked = FALSE]

\* process(): `async with lock:` then _process_impl up to its first suspension,
\* `await self._history.get_recent_turns(...)`; or queue on the lock.
EnterPc(c) == IF CanAcquire(locks[c]) THEN "get_turns" ELSE "lock_wait"
EnterLocks(k, c) ==
    IF CanAcquire(locks[c])
      THEN [locks EXCEPT ![c].locked = TRUE]
      ELSE [locks EXCEPT ![c].waiters = Append(@, k)]

\* _process_impl's `try` block: the awaited calls, in statement order
ProcessOrderSendFirst ==
    <<"get_turns", "get_fallback", "llm", "send", "save_turn", "clear_fallback">>
ProcessOrder ==
    <<"get_turns", "get_fallback", "llm", "save_turn", "clear_fallback", "send">>
NextStep(p) ==
    LET i == CHOOSE j \in 1..Len(ProcessOrder) : ProcessOrder[j] = p
    IN  IF i = Len(ProcessOrder) THEN "return" ELSE ProcessOrder[i + 1]

\* f"Processing failed for messages: {[e.get('text', '') for e in events]}"
FallbackRowNoTexts(es) == <<[messages |-> <<>>]>>
FallbackRow(es) == <<[messages |-> Texts(es)]>>

\* The caller is inside _process_impl (between its start and its end).
InImpl(k) ==
    pc[k] \in {"get_turns", "get_fallback", "fb_delete", "llm", "save_turn",
               "clear_fallback", "send", "save_fallback"}

\* wait_and_drain entered: `await self._event.wait()` does not suspend when the
\* signal is set, and the debounce loop clears it and starts wait_for.
WaitPc(b) == IF b.event THEN "debounce" ELSE "wait_event"
WaitBuf(b) == IF b.event THEN BufClear(b) ELSE b

\* _processing_loop, the `while` condition (main.py line 82)
KeepLooping(b) == ~BufIsEmpty(b) \/ ~shutdown_event

\* The locals of a finished call are gone.
ClearLocals(k) ==
    /\ fallback' = [fallback EXCEPT ![k] = NoRow]
    /\ prompt' = [prompt EXCEPT ![k] = NoPrompt]
    /\ response' = [response EXCEPT ![k] = None]

\* _processing_loop, after process() returned: `consecutive_failures = 0`
ResetFailuresKept(n) == n
ResetFailures(n) == 0

\* History: the failed cycles of the chat since its last successful cycle or
\* its last dropped batch.
FailedRun(lc) == IF lc.result = "dropped" THEN 0 ELSE lc.streak

\* process() returns: the lock is released and the caller goes on without
\* suspending. In _processing_loop: consecutive_failures = 0, then
\* `if buf.is_empty(): break`, else the next wait_and_drain.
ReturnOk(k) ==
    LET c == pchat[k] IN
    /\ locks' = [locks EXCEPT ![c] = Release(@)]
    /\ lastCycle' = [lastCycle EXCEPT ![c] =
                       [result |-> "ok", batch |-> <<>>, stored |-> FALSE, streak |-> 0,
                        cleared |-> k \in Chats /\ FailedRun(lastCycle[c]) = MaxFailures - 1]]
    /\ taken' = [taken EXCEPT ![c] = {}]
    /\ attempts' = [n \in DOMAIN attempts |-> IF n \in Ids(batch[k]) THEN 0 ELSE attempts[n]]
    /\ batch' = [batch EXCEPT ![k] = <<>>]
    /\ ClearLocals(k)
    /\ IF k \in Chats
         THEN /\ consecutive_failures' = [consecutive_failures EXCEPT ![k] = ResetFailures(@)]
              /\ IF BufIsEmpty(buffers[k])
                   THEN /\ tasks' = [tasks EXCEPT ![k] = "done"]
                        /\ live' = [live EXCEPT ![k] = @ - 1]
                        /\ pc' = [pc EXCEPT ![k] = "idle"]
                        /\ exitReason' = [exitReason EXCEPT ![k] = "empty"]
                        /\ UNCHANGED buffers
                   ELSE /\ pc' = [pc EXCEPT ![k] = WaitPc(buffers[k])]
                        /\ buffers' = [buffers EXCEPT ![k] = WaitBuf(@)]
                        /\ UNCHANGED <<tasks, live, exitReason>>
         ELSE /\ pc' = [pc EXCEPT ![k] = "idle"]
              /\ UNCHANGED <<consecutive_failures, tasks, live, exitReason, buffers>>

\* The failed batch goes back to the buffer: buf.append(events)
RequeueDropped(b, es) == b
Requeue(b, es) == BufAppend(b, es)

\* _processing_loop, except branch: `if consecutive_failures >= 3:`
FailureLimitLate(n) == n >= MaxFailures + 1
FailureLimit(n) == n >= MaxFailures

\* process() raises: the lock is released and the caller's handler runs. In
\* _processing_loop: consecutive_failures += 1; on the third, the apology is
\* awaited, else buf.append(events) and `await asyncio.sleep(30)`.
\* (st: whether save_fallback stored its row, noted for the history.)
ReturnRaise(k, st) ==
    LET c == pchat[k] IN
    /\ locks' = [locks EXCEPT ![c] = Release(@)]
    /\ UNCHANGED attempts
    /\ taken' = [taken EXCEPT ![c] = {}]
    /\ ClearLocals(k)
    /\ IF k \in Chats
         THEN /\ consecutive_failures' = [consecutive_failures EXCEPT ![k] = @ + 1]
              /\ IF FailureLimit(consecutive_failures[k] + 1)
                   THEN /\ pc' = [pc EXCEPT ![k] = "apology"]
                        /\ lastCycle' = [lastCycle EXCEPT ![c] =
                                           [result |-> "dropped", batch |-> batch[k], stored |-> st,
                                            streak |-> FailedRun(lastCycle[c]) + 1, cleared |-> FALSE]]
                        /\ UNCHANGED <<buffers, batch>>
                   ELSE /\ pc' = [pc EXCEPT ![k] = "sleep"]
                        /\ buffers' = [buffers EXCEPT ![k] = Requeue(@, batch[k])]
                        /\ lastCycle' = [lastCycle EXCEPT ![c] =
                                           [result |-> "requeued", batch |-> batch[k], stored |-> st,
                                            streak |-> FailedRun(lastCycle[c]) + 1,
                                            cleared |-> lastCycle[c].cleared]]
                        /\ batch' = [batch EXCEPT ![k] = <<>>]
              /\ UNCHANGED <<tasks, live, exitReason>>
         ELSE /\ pc' = [pc EXCEPT ![k] = "idle"]
              /\ batch' = [batch EXCEPT ![k] = <<>>]
              /\ lastCycle' = [lastCycle EXCEPT ![c] =
                                 [result |-> "failed", batch |-> batch[k], stored |-> st,
                                  streak |-> 0, cleared |-> FALSE]]
              /\ UNCHANGED <<consecutive_failures, tasks, live, exitReason, buffers>>

\* The awaited call returned, leaving the locals f (fallback), q (prompt) and
\* r (response_text): go on to the next statement of the try block.
Advance(k, p, f, q, r) ==
    IF NextStep(p) = "return"
      THEN ReturnOk(k)
      ELSE /\ pc' = [pc EXCEPT ![k] = NextStep(p)]
           /\ fallback' = [fallback EXCEPT ![k] = f]
           /\ prompt' = [prompt EXCEPT ![k] = q]
           /\ response' = [response EXCEPT ![k] = r]
           /\ UNCHANGED <<locks, tasks, live, buffers, consecutive_failures, batch,
                          exitReason, lastCycle, attempts, taken>>

ProcHist == UNCHANGED <<sentAtDrain, typing>>

\* TypingIndicator.start (first statement of _process_impl's try block):
\* self._task = asyncio.create_task(self._loop())
StartIndicator(t, k) == [t EXCEPT ![k] = TRUE]
\* TypingIndicator.stop: the task is cancelled and awaited; when stop() returns
\* the loop has ended. (The loop also ends by itself after MAX_TYPING_DURATION,
\* which only makes it end earlier.)
StopIndicatorSkipped(t, k) == t
StopIndicator(t, k) == [t EXCEPT ![k] = FALSE]
\* process() entered: the indicator is started when the lock is taken at once
EnterTyping(k, c) == IF CanAcquire(locks[c]) THEN StartIndicator(typing, k) ELSE typing

\* A store call on a closed connection raises (sqlite3.ProgrammingError), and
\* so does a request on a closed API client.
StoreOpen == "history" \notin closed
ClientOpen == "processor" \notin closed

\* asyncio.Lock.acquire, slow path: the waiter at the head of the queue is
\* woken by release() and takes the lock.
P_LockGranted(k) ==
    /\ pc[k] = "lock_wait"
    /\ ~locks[pchat[k]].locked
    /\ locks[pchat[k]].waiters # <<>>
    /\ Head(locks[pchat[k]].waiters) = k
    /\ locks' = [locks EXCEPT ![pchat[k]] = [locked |-> TRUE, waiters |-> Tail(@.waiters)]]
    /\ pc' = [pc EXCEPT ![k] = "get_turns"]
    /\ typing' = StartIndicator(typing, k)
    /\ UNCHANGED <<buffers, tasks, live, batch, consecutive_failures, fallback, prompt,
                   response, sent, db, exitReason, lastCycle, attempts, taken>>
    /\ NoStoreError /\ UNCHANGED sentAtDrain /\ ProcFrame

\* 1. turns = await self._history.get_recent_turns(chat_id, history_turns)
P_GetTurns(k) ==
    /\ pc[k] = "get_turns"
    /\ StoreOpen
    /\ Advance(k, "get_turns", fallback[k],
               [NoPrompt EXCEPT !.history = SelectRecentTurns(db, pchat[k], HistoryTurns)],
               response[k])
    /\ UNCHANGED <<db, sent>>
    /\ NoStoreError /\ ProcHist /\ ProcFrame

\* 2. fallback = await self._history.get_fallback(chat_id): the SELECT; with no
\* row the call returns None and the prompt is built (3.)
P_GetFallbackSelect(k) ==
    /\ pc[k] = "get_fallback"
    /\ StoreOpen
    /\ IF SelectFallback(db, pchat[k]) = NoRow
         THEN Advance(k, "get_fallback", NoRow,
                      BuildPrompt(pchat[k], prompt[k].history, batch[k], NoRow),
                      response[k])
         ELSE /\ pc' = [pc EXCEPT ![k] = "fb_delete"]
              /\ fallback' = [fallback EXCEPT ![k] = SelectFallback(db, pchat[k])]
              /\ UNCHANGED <<prompt, response, locks, tasks, live, buffers,
                             consecutive_failures, batch, exitReason, lastCycle, attempts, taken>>
    /\ UNCHANGED <<db, sent>>
    /\ NoStoreError /\ ProcHist /\ ProcFrame

\* 2. get_fallback: the DELETE and the return of the row; 3. the prompt is built
P_GetFallbackDelete(k) ==
    /\ pc[k] = "fb_delete"
    /\ StoreOpen
    /\ db' = DeleteFallback(db, pchat[k])
    /\ Advance(k, "get_fallback", fallback[k],
               BuildPrompt(pchat[k], prompt[k].history, batch[k], fallback[k]),
               response[k])
    /\ UNCHANGED sent
    /\ NoStoreError /\ ProcHist /\ ProcFrame

\* 4. the driver returns a response text
P_Llm(k) ==
    /\ pc[k] = "llm"
    /\ ClientOpen
    /\ \E r \in LlmTexts : Advance(k, "llm", fallback[k], prompt[k], r)
    /\ UNCHANGED <<db, sent>>
    /\ NoStoreError /\ ProcHist /\ ProcFrame

\* 5. await self._history.save_turn(chat_id, user_text, response_text, elapsed_ms)
P_SaveTurn(k) ==
    /\ pc[k] = "save_turn"
    /\ StoreOpen
    /\ db' = InsertTurn(db, pchat[k], Texts(batch[k]), response[k])
    /\ Advance(k, "save_turn", fallback[k], prompt[k], response[k])
    /\ UNCHANGED sent
    /\ NoStoreError /\ ProcHist /\ ProcFrame

\* 5. await self._history.clear_fallback(chat_id)
P_ClearFallback(k) ==
    /\ pc[k] = "clear_fallback"
    /\ StoreOpen
    /\ db' = DeleteFallback(db, pchat[k])
    /\ Advance(k, "clear_fallback", fallback[k], prompt[k], response[k])
    /\ UNCHANGED sent
    /\ NoStoreError /\ ProcHist /\ ProcFrame

\* 6. await indicator.stop(); await send_response(bot, chat_id, response_text)
\* (send_response swallows the send errors of the transport)
P_Send(k) ==
    /\ pc[k] = "send"
    /\ sent' = [sent EXCEPT ![pchat[k]] =
                  Append(@, [text |-> response[k], user_text |-> Texts(batch[k])])]
    /\ typing' = StopIndicator(typing, k)
    /\ Advance(k, "send", fallback[k], prompt[k], response[k])
    /\ UNCHANGED db
    /\ NoStoreError /\ UNCHANGED sentAtDrain /\ ProcFrame

\* 4. the driver raises (backend error, timeout): the `except Exception` branch
\* is entered; `await indicator.stop()` suspends.
P_LlmRaise(k) ==
    /\ pc[k] = "llm"
    /\ pc' = [pc EXCEPT ![k] = "save_fallback"]
    /\ UNCHANGED <<buffers, tasks, live, batch, consecutive_failures, locks, fallback,
                   prompt, response, sent, db, exitReason, lastCycle, attempts, taken>>
    /\ NoStoreError /\ ProcHist /\ ProcFrame

\* An awaited store call of the try block raises (the statement has no effect):
\* the `except Exception` branch is entered.
P_StoreRaise(k) ==
    /\ pc[k] \in {"get_turns", "get_fallback", "fb_delete", "save_turn", "clear_fallback"}
    /\ storeErrors < MaxStoreErrors
    /\ storeErrors' = storeErrors + 1
    /\ pc' = [pc EXCEPT ![k] = "save_fallback"]
    /\ UNCHANGED <<buffers, tasks, live, batch, consecutive_failures, locks, fallback,
                   prompt, response, sent, db, exitReason, lastCycle, attempts, taken>>
    /\ ProcHist /\ ProcFrame

\* except branch: indicator.stop() has returned; await save_fallback(...), then `raise`
P_SaveFallback(k) ==
    /\ pc[k] = "save_fallback"
    /\ StoreOpen
    /\ typing' = StopIndicator(typing, k)
    /\ db' = UpsertFallback(db, pchat[k], FallbackRow(batch[k]))
    /\ ReturnRaise(k, TRUE)
    /\ UNCHANGED sent
    /\ NoStoreError /\ UNCHANGED sentAtDrain /\ ProcFrame

\* except branch: save_fallback raises, which is logged and swallowed; `raise`
P_SaveFallbackRaise(k) ==
    /\ pc[k] = "save_fallback"
    /\ storeErrors < MaxStoreErrors
    /\ storeErrors' = storeErrors + 1
    /\ typing' = StopIndicator(typing, k)
    /\ ReturnRaise(k, FALSE)
    /\ UNCHANGED <<db, sent>>
    /\ UNCHANGED sentAtDrain /\ ProcFrame

\* A store call of the try block is made after history.close(): it raises
P_StoreClosedRaise(k) ==
    /\ pc[k] \in {"get_turns", "get_fallback", "fb_delete", "save_turn", "clear_fallback"}
    /\ ~StoreOpen
    /\ pc' = [pc EXCEPT ![k] = "save_fallback"]
    /\ UNCHANGED <<buffers, tasks, live, batch, consecutive_failures, locks, fallback,
                   prompt, response, sent, db, exitReason, lastCycle, attempts, taken>>
    /\ NoStoreError /\ ProcHist /\ ProcFrame

\* The driver is called after the API client was closed: it raises
P_LlmClosedRaise(k) ==
    /\ pc[k] = "llm"
    /\ ~ClientOpen
    /\ pc' = [pc EXCEPT ![k] = "save_fallback"]
    /\ UNCHANGED <<buffers, tasks, live, batch, consecutive_failures, locks, fallback,
                   prompt, response, sent, db, exitReason, lastCycle, attempts, taken>>
    /\ NoStoreError /\ ProcHist /\ ProcFrame

\* except branch, after history.close(): save_fallback raises (swallowed); `raise`
P_SaveFallbackClosedRaise(k) ==
    /\ pc[k] = "save_fallback"
    /\ ~StoreOpen
    /\ typing' = StopIndicator(typing, k)
    /\ ReturnRaise(k, FALSE)
    /\ UNCHANGED <<db, sent>>
    /\ NoStoreError /\ UNCHANGED sentAtDrain /\ ProcFrame

\* =====================================================================
\* main.py: BuddyBot.on_message, _processing_loop (the task of chat c), shutdown
\* =====================================================================
LoopFrame == UNCHANGED <<timeVars, toolVars, unitVars, workerVars, pchat, calls, shutVars, typing>>

\* `chat_id not in self._tasks or self._tasks[chat_id].done()`
NeedsTaskAlways(t) == TRUE
NeedsTask(t) == t # "running"

\* on_message(event): buf.add(event); create the task when none is running
OnMessage(c) ==
    /\ nextId <= MaxEvents
    /\ ingress
    /\ buffers' = [buffers EXCEPT ![c] = BufAdd(@, Event(nextId, c))]
    /\ nextId' = nextId + 1
    /\ arrived' = [arrived EXCEPT ![c] = @ \cup {nextId}]
    /\ IF NeedsTask(tasks[c])
         THEN /\ tasks' = [tasks EXCEPT ![c] = "running"]
              /\ live' = [live EXCEPT ![c] = @ + 1]
              /\ pc' = [pc EXCEPT ![c] = "start"]
         ELSE UNCHANGED <<tasks, live, pc>>
    /\ UNCHANGED <<batch, consecutive_failures, shutdown_event, locks, fallback,
                   prompt, response, sent, db, storeErrors, attempts, taken, sentAtDrain,
                   exitReason, lastCycle>>
    /\ LoopFrame

\* The task leaves _processing_loop (break, or the while condition is false).
TaskExit(c, why) ==
    /\ tasks' = [tasks EXCEPT ![c] = "done"]
    /\ live' = [live EXCEPT ![c] = @ - 1]
    /\ pc' = [pc EXCEPT ![c] = "idle"]
    /\ exitReason' = [exitReason EXCEPT ![c] = why]

\* First step of the task: consecutive_failures = 0, the while condition,
\* then wait_and_drain.
L_Start(c) ==
    /\ pc[c] = "start"
    /\ consecutive_failures' = [consecutive_failures EXCEPT ![c] = 0]
    /\ IF KeepLooping(buffers[c])
         THEN /\ pc' = [pc EXCEPT ![c] = WaitPc(buffers[c])]
              /\ buffers' = [buffers EXCEPT ![c] = WaitBuf(@)]
              /\ UNCHANGED <<tasks, live, exitReason>>
         ELSE /\ TaskExit(c, "empty")
              /\ UNCHANGED buffers
    /\ UNCHANGED <<nextId, batch, shutdown_event, locks, fallback, prompt, response,
                   sent, db, storeErrors, attempts, arrived, taken, sentAtDrain, lastCycle>>
    /\ LoopFrame

\* wait_and_drain line 23: `await self._event.wait()` wakes up
L_Wake(c) ==
    /\ pc[c] = "wait_event"
    /\ buffers[c].event
    /\ buffers' = [buffers EXCEPT ![c] = BufClear(@)]
    /\ pc' = [pc EXCEPT ![c] = "debounce"]
    /\ UNCHANGED <<nextId, tasks, live, batch, consecutive_failures, shutdown_event, locks,
                   fallback, prompt, response, sent, db, storeErrors, histVars>>
    /\ LoopFrame

\* wait_and_drain: the signal was set within the window, loop again
L_Renew(c) ==
    /\ pc[c] = "debounce"
    /\ buffers[c].event
    /\ buffers' = [buffers EXCEPT ![c] = BufClear(@)]
    /\ UNCHANGED <<nextId, tasks, live, pc, batch, consecutive_failures, shutdown_event,
                   locks, fallback, prompt, response, sent, db, storeErrors, histVars>>
    /\ LoopFrame

\* wait_and_drain: TimeoutError, the list is taken and cleared and returned;
\* `if not events: break`; else process(chat_id, events) is entered.
L_TimeoutDrain(c) ==
    /\ pc[c] = "debounce"
    /\ buffers' = [buffers EXCEPT ![c] = BufDrained(@)]
    /\ IF buffers[c].events = <<>>
         THEN /\ TaskExit(c, "empty")
              /\ UNCHANGED <<batch, locks, attempts, arrived, taken, sentAtDrain, typing>>
         ELSE /\ batch' = [batch EXCEPT ![c] = buffers[c].events]
              /\ pc' = [pc EXCEPT ![c] = EnterPc(c)]
              /\ locks' = EnterLocks(c, c)
              /\ typing' = EnterTyping(c, c)
              /\ attempts' = [n \in DOMAIN attempts |->
                                IF n \in Ids(buffers[c].events) THEN attempts[n] + 1
                                ELSE attempts[n]]
              /\ taken' = [taken EXCEPT ![c] = arrived[c]]
              /\ arrived' = [arrived EXCEPT ![c] = {}]
              /\ sentAtDrain' = [sentAtDrain EXCEPT ![c] = Len(sent[c])]
              /\ UNCHANGED <<tasks, live, exitReason>>
    /\ UNCHANGED <<nextId, consecutive_failures, shutdown_event, fallback, prompt,
                   response, sent, db, storeErrors, lastCycle>>
    /\ UNCHANGED <<timeVars, toolVars, unitVars, workerVars, pchat, calls, shutVars>>

\* Third failure: await send_response(bot, chat_id, "I'm having trouble ..."); break
L_Apology(c) ==
    /\ pc[c] = "apology"
    /\ sent' = [sent EXCEPT ![c] = Append(@, [text |-> Apology, user_text |-> <<>>])]
    /\ batch' = [batch EXCEPT ![c] = <<>>]
    /\ attempts' = [n \in DOMAIN attempts |-> IF n \in Ids(batch[c]) THEN 0 ELSE attempts[n]]
    /\ TaskExit(c, "drop")
    /\ UNCHANGED <<buffers, nextId, consecutive_failures, shutdown_event, locks,
                   fallback, prompt, response, db, storeErrors, arrived, taken,
                   sentAtDrain, lastCycle>>
    /\ LoopFrame

\* `await asyncio.sleep(30)` is over: `if buf.is_empty(): break`, else the
\* while condition and the next wait_and_drain.
L_SleepDone(c) ==
    /\ pc[c] = "sleep"
    /\ IF BufIsEmpty(buffers[c]) \/ ~KeepLooping(buffers[c])
         THEN /\ TaskExit(c, "empty")
              /\ UNCHANGED buffers
         ELSE /\ pc' = [pc EXCEPT ![c] = WaitPc(buffers[c])]
              /\ buffers' = [buffers EXCEPT ![c] = WaitBuf(@)]
              /\ UNCHANGED <<tasks, live, exitReason>>
    /\ UNCHANGED <<nextId, batch, consecutive_failures, shutdown_event, locks,
                   fallback, prompt, response, sent, db, storeErrors, attempts, arrived,
                   taken, sentAtDrain, lastCycle>>
    /\ LoopFrame

\* shutdown(): self._shutdown_event.set(), up to `await self._app.updater.stop()`
Shutdown ==
    /\ ~shutdown_event
    /\ shutdown_event' = TRUE
    /\ sdpc' = "stop_telegram"
    /\ UNCHANGED <<bufVars, tasks, live, pc, batch, consecutive_failures, procVars, db, storeErrors,
                   timeVars, toolVars, unitVars, workerVars, histVars, closed, ingress, typing>>

ShutdownFrame ==
    UNCHANGED <<bufVars, timeVars, toolVars, unitVars, botVars, procVars, storeVars, workerVars, histVars, typing>>

\* shutdown(): updater.stop(), app.stop() and app.shutdown() have returned (no
\* update is handed to on_message any more); up to `await self._processor.close()`
Sd_StopTelegram ==
    /\ sdpc = "stop_telegram"
    /\ ingress' = FALSE
    /\ sdpc' = "close_processor"
    /\ UNCHANGED closed
    /\ ShutdownFrame

\* shutdown(): the processor's API client is closed; up to
\* `await self._http_client.aclose()`
Sd_CloseProcessor ==
    /\ sdpc = "close_processor"
    /\ closed' = closed \cup {"processor"}
    /\ sdpc' = "close_clients"
    /\ UNCHANGED ingress
    /\ ShutdownFrame

\* shutdown(): the http and graphiti clients are closed, then self._todo.close()
\* and self._history.close() without waiting for anything; shutdown() returns
Sd_CloseStores ==
    /\ sdpc = "close_clients"
    /\ closed' = closed \cup {"http", "graphiti", "todo", "history"}
    /\ sdpc' = "done"
    /\ UNCHANGED ingress
    /\ ShutdownFrame

\* start() returns once the flag is set (its last statement is
\* `await self._shutdown_event.wait()`), so asyncio.run(bot.start()) in main()
\* cancels every task still pending, the chat tasks (a CancelledError is not an
\* Exception: no handler of _process_impl or _processing_loop runs, `async with`
\* releases the lock), the typing loops and shutdown() itself, and closes the loop.
CancelledPc(k) == IF InImpl(k) \/ pc[k] = "lock_wait" THEN "abandoned" ELSE "cancelled"
RunTeardown ==
    /\ shutdown_event
    /\ "loop" \notin closed
    /\ closed' = closed \cup {"loop"}
    /\ ingress' = FALSE
    /\ sdpc' = IF sdpc = "done" THEN "done" ELSE "cancelled"
    /\ pc' = [k \in Callers |->
                IF k \in Chats /\ tasks[k] = "running" THEN CancelledPc(k) ELSE pc[k]]
    /\ tasks' = [c \in Chats |-> IF tasks[c] = "running" THEN "done" ELSE tasks[c]]
    /\ live' = [c \in Chats |-> 0]
    /\ locks' = [c \in Chats |-> [locked |-> FALSE, waiters |-> <<>>]]
    /\ typing' = [k \in Callers |-> FALSE]
    /\ batch' = [k \in Callers |-> <<>>]
    /\ fallback' = [k \in Callers |-> NoRow]
    /\ prompt' = [k \in Callers |-> NoPrompt]
    /\ response' = [k \in Callers |-> None]
    /\ UNCHANGED <<bufVars, timeVars, toolVars, unitVars, consecutive_failures, shutdown_event, pchat, sent,
                   calls, storeVars, workerVars, histVars>>

\* The program: events come in for any chat; each chat's task and its cycle run.
\* (The per-chat lock is never contended and a task never blocks on an unset
\* signal here: see NoLockWait.)
Next ==
    \/ \E c \in Chats : OnMessage(c)
    \/ \E c \in Chats : L_Start(c)
    \/ \E c \in Chats : L_Renew(c)
    \/ \E c \in Chats : L_TimeoutDrain(c)
    \/ \E c \in Chats : L_Apology(c)
    \/ \E c \in Chats : L_SleepDone(c)
    \/ \E c \in Chats : P_GetTurns(c)
    \/ \E c \in Chats : P_GetFallbackSelect(c)
    \/ \E c \in Chats : P_GetFallbackDelete(c)
    \/ \E c \in Chats : P_Llm(c)
    \/ \E c \in Chats : P_SaveTurn(c)
    \/ \E c \in Chats : P_ClearFallback(c)
    \/ \E c \in Chats : P_Send(c)
    \/ \E c \in Chats : P_LlmRaise(c)
    \/ \E c \in Chats : P_StoreRaise(c)
    \/ \E c \in Chats : P_SaveFallback(c)
    \/ \E c \in Chats : P_SaveFallbackRaise(c)

Spec == Init /\ [][Next]_vars

\* The program with shutdown() called at any moment. The flag is read by the
\* while condition only, which _processing_loop reaches with a non-empty buffer
\* only (KeepLooping is then true whatever the flag), so until shutdown() closes
\* something or the loop is torn down the chat tasks behave as in Spec.
NextWithShutdown ==
    \/ Next
    \/ Shutdown
    \/ Sd_StopTelegram
    \/ Sd_CloseProcessor
    \/ Sd_CloseStores
    \/ RunTeardown
    \/ \E c \in Chats : P_StoreClosedRaise(c)
    \/ \E c \in Chats : P_LlmClosedRaise(c)
    \/ \E c \in Chats : P_SaveFallbackClosedRaise(c)
SpecWithShutdown == Init /\ [][NextWithShutdown]_vars

\* In the program no task ever queues on the processor's lock or blocks on an
\* unset signal: the steps P_LockGranted and L_Wake have nothing to do in Spec.
NoLockWait == \A c \in Chats : pc[c] \notin {"lock_wait", "wait_event"}

\* =====================================================================
\* SpecProcess: process(chat_id, events) called concurrently by several
\* callers (asyncio.gather in the tests), on one MessageProcessor.
\* =====================================================================
D_Call(k, c) ==
    /\ pc[k] = "idle"
    /\ calls < MaxCalls
    /\ calls' = calls + 1
    /\ pchat' = [pchat EXCEPT ![k] = c]
    /\ batch' = [batch EXCEPT ![k] = <<Event(calls + 1, c)>>]
    /\ pc' = [pc EXCEPT ![k] = EnterPc(c)]
    /\ locks' = EnterLocks(k, c)
    /\ typing' = EnterTyping(k, c)
    /\ UNCHANGED <<bufVars, timeVars, toolVars, unitVars, workerVars, tasks, live, consecutive_failures,
                   shutdown_event, fallback, prompt, response, sent, db, storeErrors, histVars,
                   shutVars>>

NextProcess ==
    \/ \E k \in Direct, c \in Chats : D_Call(k, c)
    \/ \E k \in Direct : P_LockGranted(k)
    \/ \E k \in Direct : P_GetTurns(k)
    \/ \E k \in Direct : P_GetFallbackSelect(k)
    \/ \E k \in Direct : P_GetFallbackDelete(k)
    \/ \E k \in Direct : P_Llm(k)
    \/ \E k \in Direct : P_SaveTurn(k)
    \/ \E k \in Direct : P_ClearFallback(k)
    \/ \E k \in Direct : P_Send(k)
    \/ \E k \in Direct : P_LlmRaise(k)
    \/ \E k \in Direct : P_StoreRaise(k)
    \/ \E k \in Direct : P_SaveFallback(k)
    \/ \E k \in Direct : P_SaveFallbackRaise(k)

SpecProcess == Init /\ [][NextProcess]_vars

\* =====================================================================
\* Properties of process() under concurrent callers (SpecProcess)
\* =====================================================================

\* C1: for every chat_id, under every interleaving of concurrent process()
\* calls, at most one _process_impl of that chat is between its start and its
\* end at any time.
C1_Serialized ==
    \A c \in Chats : Cardinality({k \in Callers : pchat[k] = c /\ InImpl(k)}) <= 1

\* C1 witness: a second call for the same chat came in while a _process_impl
\* was running and is queued on the chat's lock.
C1_Witness ==
    \E k1, k2 \in Direct :
        /\ k1 # k2
        /\ pchat[k1] = pchat[k2]
        /\ InImpl(k1)
        /\ pc[k2] = "lock_wait"

\* =====================================================================
\* Properties of the chat tasks (Spec)
\* =====================================================================
Ordered(es) == \A i, j \in 1..Len(es) : i < j => es[i].id < es[j].id
InProcess(c) == InImpl(c) \/ pc[c] = "lock_wait"
NoDuplicates(es) == Cardinality(Ids(es)) = Len(es)

\* C4: in every batch passed to process for a chat, the events are in the
\* order in which on_message received them (ids grow with arrival), also in the
\* batch formed after a failed cycle re-queued its events while newer ones came.
C4_ArrivalOrder == \A c \in Chats : InProcess(c) => Ordered(batch[c])

\* C5: after a failed cycle that is not the third in a row, every event of the
\* failed batch is back in the buffer until the next drain, and the next batch
\* passed to process is the failed batch combined with the events that arrived
\* in the meantime, each once.
C5_Requeued ==
    \A c \in Chats :
        lastCycle[c].result = "requeued" =>
            /\ tasks[c] = "running"
            /\ IF InProcess(c)
                 THEN /\ Ids(batch[c]) = Ids(lastCycle[c].batch) \cup taken[c]
                      /\ NoDuplicates(batch[c])
                 ELSE /\ pc[c] \in {"sleep", "debounce"}
                      /\ Ids(lastCycle[c].batch) \subseteq Ids(buffers[c].events)
                      /\ NoDuplicates(buffers[c].events)

\* C5 witness: the batch in process holds a requeued batch together with an
\* event that arrived after that batch was drained.
C5_Witness ==
    \E c \in Chats :
        /\ lastCycle[c].result = "requeued"
        /\ InProcess(c)
        /\ lastCycle[c].batch # <<>>
        /\ taken[c] # {}
        /\ Len(batch[c]) > Len(lastCycle[c].batch)

\* C6: nothing is sent to the user by the first and second consecutive failed
\* cycles; on the third exactly one fixed apology is sent, the batch is not
\* requeued and the task exits; no event is passed to process more than 3 times.
C6_SilenceThenApology ==
    /\ \A n \in DOMAIN attempts : attempts[n] <= 3
    /\ \A c \in Chats :
        /\ pc[c] = "sleep" =>
              /\ consecutive_failures[c] \in {1, 2}
              /\ Len(sent[c]) = sentAtDrain[c]
        /\ pc[c] = "apology" =>
              /\ consecutive_failures[c] = 3
              /\ \E n \in Ids(batch[c]) : attempts[n] = 3
              /\ Len(sent[c]) = sentAtDrain[c]
              /\ Ids(batch[c]) \cap Ids(buffers[c].events) = {}
        /\ (tasks[c] = "done" /\ exitReason[c] = "drop") =>
              /\ lastCycle[c].result = "dropped"
              /\ Len(sent[c]) = sentAtDrain[c] + 1
              /\ sent[c][Len(sent[c])].text = Apology
              /\ Ids(lastCycle[c].batch) \cap Ids(buffers[c].events) = {}

\* C6 witness: a task has exited after its third consecutive failure, the
\* apology being the one message sent since the batch was drained.
C6_Witness ==
    \E c \in Chats :
        /\ tasks[c] = "done"
        /\ exitReason[c] = "drop"
        /\ lastCycle[c].result = "dropped"
        /\ Len(sent[c]) = sentAtDrain[c] + 1
        /\ sent[c][Len(sent[c])].text = Apology

\* C7: when a chat task exits after the third consecutive failure, the chat's
\* buffer is empty, also when events were added while the cycles were running.
C7_BufferCleared ==
    \A c \in Chats :
        (tasks[c] = "done" /\ exitReason[c] = "drop") => BufIsEmpty(buffers[c])

\* C8: save_turn for the batch has completed before its response is sent: every
\* response sent has its turn in the table, and a send is only ever pending for
\* a batch whose turn is in the table.
C8_PersistBeforeSend ==
    \A c \in Chats :
        /\ \A i \in 1..Len(sent[c]) :
              sent[c][i].text # Apology =>
                  \E j \in 1..Len(db.turns) :
                      db.turns[j] = Turn(c, sent[c][i].user_text, sent[c][i].text)
        /\ pc[c] = "send" =>
              \E j \in 1..Len(db.turns) :
                  db.turns[j] = Turn(c, Texts(batch[c]), response[c])

\* C8 witness: a response has been sent.
C8_Witness ==
    \E c \in Chats : \E i \in 1..Len(sent[c]) : sent[c][i].text \in LlmTexts

\* C9: after a failed cycle whose save_fallback succeeded, the chat has a
\* fallback row with the texts of the batch until a cycle consumes it; the next
\* cycle's get_fallback removes it and the prompt has the fallback section with
\* it; after a successful cycle the chat has no fallback row.
C9_FallbackRoundTrip ==
    \A c \in Chats :
        /\ (lastCycle[c].result \in {"requeued", "dropped"} /\ lastCycle[c].stored) =>
              /\ pc[c] \in {"sleep", "apology", "idle", "start", "debounce",
                            "get_turns", "get_fallback"} =>
                    /\ SelectFallback(db, c) = FallbackRow(lastCycle[c].batch)
                    /\ SelectFallback(db, c)[1].messages = Texts(lastCycle[c].batch)
              /\ pc[c] = "llm" =>
                    /\ SelectFallback(db, c) = NoRow
                    /\ prompt[c].fallback_section = FallbackRow(lastCycle[c].batch)
        /\ lastCycle[c].result = "ok" => SelectFallback(db, c) = NoRow

\* C9 witness: the cycle after a failed one has consumed the row and holds a
\* prompt with the fallback section.
C9_Witness ==
    \E c \in Chats :
        /\ lastCycle[c].result = "requeued"
        /\ lastCycle[c].stored
        /\ pc[c] = "llm"
        /\ prompt[c].fallback_section # NoRow

\* =====================================================================
\* Properties of shutdown (SpecWithShutdown)
\* =====================================================================

\* C11: on shutdown a chat task in its PROCESS phase finishes that PROCESS (it
\* is not abandoned), and neither the processor client nor a store is closed
\* while a chat's PROCESS is in flight.
C11_ProcessFinishesBeforeClose ==
    \A c \in Chats :
        /\ pc[c] # "abandoned"
        /\ InProcess(c) => closed \cap {"processor", "todo", "history"} = {}

\* =====================================================================
\* Properties of one PROCESS cycle (SpecProcess)
\* =====================================================================

\* C12: a typing loop runs only while its _process_impl is between its start
\* and its end: once _process_impl has returned or raised (success, failure of
\* the driver, failure of a store call), the loop of that cycle has ended.
C12_IndicatorStopped == \A k \in Callers : typing[k] => InImpl(k)

\* C12 witness: all calls are over, one of them sent its response and the
\* last one of that chat raised; no typing loop is left.
C12_Witness ==
    /\ calls > 0
    /\ \A k \in Direct : pc[k] = "idle" /\ ~typing[k]
    /\ \E c \in Chats : lastCycle[c].result = "failed" /\ Len(sent[c]) > 0

\* =====================================================================
\* More properties of the chat tasks (Spec)
\* =====================================================================
Last(q) == q[Len(q)]

\* C13: a cycle stores its turn in one step, the save_turn of its try block,
\* and that step adds exactly one turn for the chat, with the texts of the batch
\* in batch order as user_text and the driver's text as bot_response; no other
\* step adds a turn; and the response sent is the bot_response of that turn.
C13_OneTurnPerCycle ==
    [][ \A c \in Chats :
          LET before == TurnsOf(db.turns, c)
              after == TurnsOf(db.turns', c)
          IN  /\ after # before =>
                    /\ pc[c] = "save_turn" /\ pc'[c] = "clear_fallback"
                    /\ after = Append(before, Turn(c, Texts(batch[c]), response[c]))
              /\ (pc[c] = "save_turn" /\ pc'[c] = "clear_fallback") => after # before
              /\ pc'[c] = "send" => pc[c] \in {"clear_fallback", "send"}
              /\ pc'[c] = "clear_fallback" => pc[c] \in {"save_turn", "clear_fallback"}
              /\ (pc[c] = "send" /\ pc'[c] # "send") =>
                    /\ before # <<>>
                    /\ Last(before) = Turn(c, Texts(batch[c]), response[c])
                    /\ sent'[c] = Append(sent[c], [text |-> Last(before).bot_response,
                                                   user_text |-> Last(before).user_text])
      ]_vars

\* C13 witness: a cycle with a batch of two events succeeded: its turn is
\* stored and its response was sent.
C13_Witness ==
    \E c \in Chats :
        /\ lastCycle[c].result = "ok"
        /\ sent[c] # <<>>
        /\ Len(Last(sent[c]).user_text) = 2
        /\ TurnsOf(db.turns, c) # <<>>
        /\ Last(TurnsOf(db.turns, c)).user_text = Last(sent[c]).user_text

(***************************************************************************)
(* C14: a successful cycle resets the failure counter to 0, so the apology *)
(* and the drop happen only at the third failed cycle in a row with no     *)
(* successful cycle between: after a success the counter is 0, after a     *)
(* requeued failure it equals the number of failed cycles since the last   *)
(* success (1 or 2), and a batch is dropped, and the apology sent, exactly *)
(* when that number reaches 3.                                             *)
(***************************************************************************)
C14_ResetOnSuccess ==
    \A c \in Chats :
        /\ lastCycle[c].result = "ok" =>
              /\ lastCycle[c].streak = 0
              /\ consecutive_failures[c] = 0
        /\ lastCycle[c].result = "requeued" =>
              /\ lastCycle[c].streak \in 1..(MaxFailures - 1)
              /\ consecutive_failures[c] = lastCycle[c].streak
        /\ lastCycle[c].result = "dropped" => lastCycle[c].streak = MaxFailures
        /\ pc[c] = "apology" => lastCycle[c].result = "dropped"

\* fail, fail, success, fail, fail: the chat sleeps before its next retry, it
\* got its answer and no apology, and nothing was dropped.
C14_Witness ==
    \E c \in Chats :
        /\ pc[c] = "sleep"
        /\ lastCycle[c].result = "requeued"
        /\ lastCycle[c].streak = 2
        /\ lastCycle[c].cleared
        /\ Len(sent[c]) = 1
        /\ sent[c][1].text # Apology
        /\ exitReason[c] # "drop"
        /\ Ids(lastCycle[c].batch) \subseteq Ids(buffers[c].events)

(***************************************************************************)
(* C15 (SpecBuffer).  The time of the latest add among the events of a     *)
(* returned batch, and the later of two times.                             *)
(***************************************************************************)
Later(a, b) == IF a >= b THEN a ELSE b
LatestAddIn(r) ==
    LET ts == {addTimes[r.batch[j].id] : j \in 1..Len(r.batch)}
    IN  CHOOSE t \in ts : \A u \in ts : u <= t

\* C15 as stated: every call of wait_and_drain returns its batch within one
\* debounce window (debounce_delay) of the latest add.
C15_WithinWindowOfLatestAdd ==
    \A i \in 1..Len(returned) :
        returned[i].at <= LatestAddIn(returned[i]) + DebounceDelay

\* C15 as amended: a wait_and_drain call that has seen a buffered event never
\* waits past its timer, which expires at most debounce_delay after the later
\* of the latest add and the start of the call; so the call returns a
\* non-empty batch within one debounce window of the latest add or, when the
\* events were already buffered, of its own start; and the batch holds every
\* event added before the return that no earlier batch held.
C15_ReturnsWithinWindow ==
    /\ cpc = "debounce" =>
          /\ now <= deadline
          /\ deadline <= Later(LastAddTime, calledAt) + DebounceDelay
    /\ \A i \in 1..Len(returned) :
          /\ returned[i].batch # <<>>
          /\ returned[i].at <= Later(LatestAddIn(returned[i]), returned[i].called)
                                  + DebounceDelay
          /\ \A n \in 1..(nextId - 1) :
                addTimes[n] < returned[i].at =>
                    \E j \in 1..i : n \in Ids(returned[j].batch)

\* C15 witness: a call that began with one event buffered, received a second
\* one during its wait and returned both exactly one window after that add.
C15_Witness ==
    /\ Len(returned) = 1
    /\ Len(returned[1].batch) = 2
    /\ addTimes[1] <= returned[1].called
    /\ addTimes[2] > returned[1].called
    /\ returned[1].at = addTimes[2] + DebounceDelay

(***************************************************************************)
(* C16: immediately after wait_and_drain returns, is_empty() is true, and  *)
(* it stays true until the next add or non-empty append: the step in which *)
(* a chat's wait_and_drain returns leaves that chat's buffer empty, and an *)
(* empty buffer becomes non-empty only by on_message's add of a new event  *)
(* or by the retry handler's append of a non-empty failed batch.           *)
(***************************************************************************)
C16_EmptyAfterDrain ==
    [][ \A c \in Chats :
          /\ (pc[c] = "debounce" /\ pc'[c] # "debounce") =>
                /\ batch'[c] = buffers[c].events
                /\ BufIsEmpty(buffers'[c])
          /\ (BufIsEmpty(buffers[c]) /\ ~BufIsEmpty(buffers'[c])) =>
                \/ /\ nextId' = nextId + 1
                   /\ buffers'[c].events = <<Event(nextId, c)>>
                \/ /\ pc[c] = "save_fallback"
                   /\ batch[c] # <<>>
                   /\ buffers'[c].events = batch[c]
      ]_vars

\* C16 witness: a drain returned two events, the cycle on them is running and
\* the buffer is still empty.
C16_Witness ==
    \E c \in Chats :
        /\ InImpl(c)
        /\ Len(batch[c]) = 2
        /\ BufIsEmpty(buffers[c])
        /\ ~buffers[c].event

\* =====================================================================
\* SpecHistory: one caller using a HistoryStore the way its tests do, each
\* call awaited before the next one is made, so that every method runs
\* from its first statement to its return with no other call in between.
\* Texts are sequences of characters; the first character of a saved text
\* is the number of the call that saved it, so no two saved texts agree.
\* =====================================================================
MaxChars == 1           \* HistoryStore max_chars (settings.history_max_chars, 500 by default)

HistoryFrame ==
    UNCHANGED <<bufVars, timeVars, toolVars, unitVars, botVars, procVars, histVars, shutVars, typing,
                storeErrors, wpc, wchat, wrow, wret, saved, got>>

\* A text of one character, or a longer one
Text(n, long) == IF long THEN <<n, 0>> ELSE <<n>>

\* row["user_text"][: self._max_chars]
Truncate(text) == IF Len(text) <= MaxChars THEN text ELSE SubSeq(text, 1, MaxChars)

\* Turn(user_text=..., bot_response=..., created_at=...) built from a row
ReadTurn(row) ==
    [user_text |-> Truncate(row.user_text), bot_response |-> Truncate(row.bot_response)]

\* _get_recent_turns_sync: the list comprehension over reversed(rows)
RecentTurns(d, c, limit) ==
    LET rows == SelectRecentTurns(d, c, limit)
    IN  [i \in 1..Len(rows) |-> ReadTurn(rows[i])]

Logged(op, c, arg, ret) == [op |-> op, chat_id |-> c, arg |-> arg, ret |-> ret]

\* await store.save_turn(chat_id, user_text, bot_response)
H_SaveTurn(c, long) ==
    /\ storeOps < MaxStoreOps
    /\ storeOps' = storeOps + 1
    /\ LET u == Text(storeOps + 1, long)
           b == Text(storeOps + 1, TRUE)
       IN  /\ db' = InsertTurn(db, c, u, b)
           /\ oplog' = Append(oplog, Logged("save_turn", c, Turn(c, u, b), NoRow))
    /\ HistoryFrame

\* await store.get_recent_turns(chat_id, limit)
H_GetRecentTurns(c, limit) ==
    /\ storeOps < MaxStoreOps
    /\ storeOps' = storeOps + 1
    /\ oplog' = Append(oplog, Logged("get_recent_turns", c, limit, RecentTurns(db, c, limit)))
    /\ UNCHANGED db
    /\ HistoryFrame

\* await store.save_fallback(chat_id, stdout)
H_SaveFallback(c) ==
    /\ storeOps < MaxStoreOps
    /\ storeOps' = storeOps + 1
    /\ db' = UpsertFallback(db, c, Text(storeOps + 1, FALSE))
    /\ oplog' = Append(oplog, Logged("save_fallback", c, Text(storeOps + 1, FALSE), NoRow))
    /\ HistoryFrame

\* await store.get_fallback(chat_id): SELECT; None without a row, else DELETE
\* and the row's stdout
H_GetFallback(c) ==
    /\ storeOps < MaxStoreOps
    /\ storeOps' = storeOps + 1
    /\ db' = IF SelectFallback(db, c) = NoRow THEN db ELSE DeleteFallback(db, c)
    /\ oplog' = Append(oplog, Logged("get_fallback", c, NoRow, SelectFallback(db, c)))
    /\ HistoryFrame

\* await store.clear_fallback(chat_id)
H_ClearFallback(c) ==
    /\ storeOps < MaxStoreOps
    /\ storeOps' = storeOps + 1
    /\ db' = DeleteFallback(db, c)
    /\ oplog' = Append(oplog, Logged("clear_fallback", c, NoRow, NoRow))
    /\ HistoryFrame

NextHistory ==
    \E c \in Chats :
        \/ \E long \in BOOLEAN : H_SaveTurn(c, long)
        \/ \E limit \in {1, HistoryTurns} : H_GetRecentTurns(c, limit)
        \/ H_SaveFallback(c)
        \/ H_GetFallback(c)
        \/ H_ClearFallback(c)

SpecHistory == Init /\ [][NextHistory]_vars

\* The calls before the i-th that wrote or removed the fallback of chat c, and
\* the value the slot of chat c holds after the first i calls according to
\* the calls alone: the value of the latest save_fallback(c) that no later
\* get_fallback(c) or clear_fallback(c) followed, else none.
FallbackCalls(c, i) ==
    {j \in 1..i : /\ oplog[j].chat_id = c
                  /\ oplog[j].op \in {"save_fallback", "get_fallback", "clear_fallback"}}
SlotAfter(c, i) ==
    LET js == FallbackCalls(c, i)
    IN  IF js = {} THEN NoRow
        ELSE LET j == CHOOSE x \in js : \A y \in js : y <= x
             IN  IF oplog[j].op = "save_fallback" THEN oplog[j].arg ELSE NoRow

(***************************************************************************)
(* C17: the fallback store is a single slot per chat_id: every             *)
(* get_fallback(c) returns the value of the latest save_fallback(c) unless *)
(* a get_fallback(c) or clear_fallback(c) came after it, and then None     *)
(* (so save v, get, get gives v, None and save v1, save v2, get gives v2); *)
(* the table never holds more than one record per chat_id; and what it     *)
(* holds for a chat depends on the calls for that chat only.               *)
(***************************************************************************)
C17_SingleSlot ==
    /\ \A i \in 1..Len(oplog) :
          oplog[i].op = "get_fallback" => oplog[i].ret = SlotAfter(oplog[i].chat_id, i - 1)
    /\ \A c \in Chats :
          /\ Cardinality({r \in db.fallback_context : r.chat_id = c}) <= 1
          /\ SelectFallback(db, c) = SlotAfter(c, Len(oplog))

\* C17 witness: save v1, save v2, get, get on one chat returned v2 and None
\* (with MaxStoreOps raised, anywhere in the run).
C17_Witness ==
    \E i \in 1..Len(oplog) : \E c \in Chats :
        /\ i + 3 <= Len(oplog)
        /\ \A j \in i..(i + 3) : oplog[j].chat_id = c
        /\ oplog[i].op = "save_fallback" /\ oplog[i + 1].op = "save_fallback"
        /\ oplog[i + 2].op = "get_fallback" /\ oplog[i + 2].ret = oplog[i + 1].arg
        /\ oplog[i + 2].ret # oplog[i].arg
        /\ oplog[i + 3].op = "get_fallback" /\ oplog[i + 3].ret = NoRow

\* The turns passed to save_turn for chat c in the first i calls, in call order.
RECURSIVE SavedTurns(_, _)
SavedTurns(c, i) ==
    IF i = 0 THEN <<>>
    ELSE IF oplog[i].op = "save_turn" /\ oplog[i].chat_id = c
           THEN Append(SavedTurns(c, i - 1), oplog[i].arg)
           ELSE SavedTurns(c, i - 1)

\* t is the text `full` as read back: its first max_chars characters.
IsCut(t, full) ==
    /\ Len(t) = (IF Len(full) <= MaxChars THEN Len(full) ELSE MaxChars)
    /\ \A x \in 1..Len(t) : t[x] = full[x]

(***************************************************************************)
(* C18: after any sequence of save_turn calls, get_recent_turns(c, N)      *)
(* returns exactly the min(N, count) most recently saved turns of chat c,  *)
(* oldest first (each text as read back, cut to max_chars), and no turn    *)
(* saved for another chat.                                                 *)
(***************************************************************************)
C18_RecentTurns ==
    \A i \in 1..Len(oplog) :
        oplog[i].op = "get_recent_turns" =>
            LET c == oplog[i].chat_id
                N == oplog[i].arg
                ret == oplog[i].ret
                mine == SavedTurns(c, i - 1)
                count == Len(mine)
                k == IF N <= count THEN N ELSE count
            IN  /\ Len(ret) = k
                /\ \A j \in 1..k :
                      /\ IsCut(ret[j].user_text, mine[count - k + j].user_text)
                      /\ IsCut(ret[j].bot_response, mine[count - k + j].bot_response)
                /\ \A j \in 1..Len(ret) : \A m \in 1..(i - 1) :
                      (/\ oplog[m].op = "save_turn"
                       /\ oplog[m].arg.user_text[1] = ret[j].user_text[1])
                          => oplog[m].chat_id = c

\* C18 witness: three turns were saved for a chat and get_recent_turns with
\* limit 2 returned the second and the third, in that order.
C18_Witness ==
    \E i \in 1..Len(oplog) :
        /\ oplog[i].op = "get_recent_turns"
        /\ oplog[i].arg = 2
        /\ Len(SavedTurns(oplog[i].chat_id, i - 1)) = 3
        /\ Len(oplog[i].ret) = 2
        /\ oplog[i].ret[1].user_text[1] < oplog[i].ret[2].user_text[1]
        /\ oplog[i].ret[2].user_text[1] = SavedTurns(oplog[i].chat_id, i - 1)[3].user_text[1]

(***************************************************************************)
(* C19: the turn log is append-only: no store call changes or deletes a    *)
(* saved turn; save_fallback, get_fallback, clear_fallback and             *)
(* get_recent_turns leave the stored turns unchanged, and save_turn only   *)
(* adds one record, the turn it was given, at the end.                     *)
(***************************************************************************)
C19_AppendOnly ==
    [][ oplog' # oplog =>
          LET call == oplog'[Len(oplog')]
          IN  IF call.op = "save_turn"
                THEN db'.turns = Append(db.turns, call.arg)
                ELSE db'.turns = db.turns
      ]_vars

\* C19 witness: turns of both chats are stored, and calls of every other kind
\* were made after the first save_turn.
C19_Witness ==
    /\ Len(db.turns) = 2
    /\ db.turns[1].chat_id # db.turns[2].chat_id
    /\ oplog[1].op = "save_turn"
    /\ \E i \in 2..Len(oplog) : oplog[i].op \in {"get_fallback", "clear_fallback"}
    /\ \E i \in 2..Len(oplog) : oplog[i].op = "save_fallback"

\* =====================================================================
\* tools/registry.py: ToolRegistry.  Python values are written as tuples of
\* strings that begin with the value's type: <<"str", text>>, a dict
\* <<"dict", key, value...>>, a set <<"set", ...>>.  An f-string is the
\* tuple of its parts in order.
\* =====================================================================
Inputs == {"hello", "bye"}

\* The handlers of the registry's tests, and two more: one that returns an
\* object json cannot serialize, one that is cancelled while it runs.
Handlers == {"echo_handler", "string_handler", "failing_handler", "set_handler",
             "cancelled_handler"}

Returns(value) == [kind |-> "return", value |-> value]
Raises(class, msg) == [kind |-> "raise", value |-> <<class, msg>>]

\* await entry.handler(input)
HandlerOutcome(h, input) ==
    CASE h = "echo_handler" -> Returns(<<"dict", "echo", input>>)
      [] h = "string_handler" -> Returns(<<"str", "plain string result">>)
      [] h = "failing_handler" -> Raises("Exception", "boom")
      [] h = "set_handler" -> Returns(<<"set", input>>)
      [] h = "cancelled_handler" -> Raises("BaseException", "")

\* json.dumps(obj): the JSON text of a dict; TypeError for a set
Serializable(obj) == obj[1] = "dict"
JsonDumps(obj) == <<"str", "json">> \o obj
\* json.loads(text)
JsonLoads(text) == SubSeq(text, 3, Len(text))

\* {"error": error_msg}
ErrorObj(error_msg) == <<"dict", "error">> \o error_msg

\* ToolRegistry.register: self._tools[name] = ToolEntry(...)
Register(t, name, h) == [t EXCEPT ![name] = h]

\* ToolRegistry.dispatch: the outcome of the call (a returned string or a
\* raised exception) for the registry t
DispatchNoCatch(t, name, input) ==
    IF t[name] = NoEntry
      THEN Returns(JsonDumps(ErrorObj(<<"Unknown tool: ", name>>)))
      ELSE LET r == HandlerOutcome(t[name], input)
           IN  IF r.kind = "raise" \/ r.value[1] = "str" THEN r
               ELSE IF Serializable(r.value) THEN Returns(JsonDumps(r.value))
               ELSE Raises("Exception", "Object of type set is not JSON serializable")
Dispatch(t, name, input) ==
    IF t[name] = NoEntry
      THEN Returns(JsonDumps(ErrorObj(<<"Unknown tool: ", name>>)))
      ELSE LET r == HandlerOutcome(t[name], input)
               failed(msg) == Returns(JsonDumps(ErrorObj(<<"Tool ", name, " failed: ", msg>>)))
           IN  IF r.kind = "raise"
                 THEN IF r.value[1] = "Exception" THEN failed(r.value[2]) ELSE r
                 ELSE IF r.value[1] = "str" THEN r
                 ELSE IF Serializable(r.value) THEN Returns(JsonDumps(r.value))
                 ELSE failed("Object of type set is not JSON serializable")

RegistryFrame ==
    UNCHANGED <<unitVars, bufVars, timeVars, botVars, procVars, storeVars, workerVars, histVars,
                shutVars, typing>>

\* registry.register(name, description, input_schema, handler)
R_Register(name, h) ==
    /\ tools' = Register(tools, name, h)
    /\ UNCHANGED dispatched
    /\ RegistryFrame

\* await registry.dispatch(name, input)
R_Dispatch(name, input) ==
    /\ dispatched' = <<[name |-> name, input |-> input, out |-> Dispatch(tools, name, input)]>>
    /\ UNCHANGED tools
    /\ RegistryFrame

NextRegistry ==
    \/ \E name \in ToolNames, h \in Handlers : R_Register(name, h)
    \/ \E name \in CallNames, input \in Inputs : R_Dispatch(name, input)

SpecRegistry == Init /\ [][NextRegistry]_vars

(***************************************************************************)
(* C20: dispatch never raises for a handler exception (it raises only what *)
(* is not an Exception, a cancellation).  For an unregistered name it      *)
(* returns the JSON text of {"error": "Unknown tool: <name>"}; when the    *)
(* handler raises an Exception with message msg it returns the JSON text   *)
(* of {"error": "Tool <name> failed: <msg>"}; a string result is returned  *)
(* unchanged and a dict result as JSON text that parses back to it; the    *)
(* registry is unchanged by dispatch.                                      *)
(***************************************************************************)
C20_DispatchEnvelope ==
    [][ dispatched' # dispatched =>
          LET d == dispatched'[1]
              h == tools[d.name]
              r == HandlerOutcome(h, d.input)
          IN  /\ tools' = tools
              /\ d.out.kind = "raise" =>
                    /\ h # NoEntry
                    /\ r.kind = "raise"
                    /\ r.value[1] # "Exception"
              /\ h = NoEntry =>
                    /\ d.out.kind = "return"
                    /\ d.out.value[1] = "str"
                    /\ JsonLoads(d.out.value) = <<"dict", "error", "Unknown tool: ", d.name>>
              /\ (h # NoEntry /\ r.kind = "raise" /\ r.value[1] = "Exception") =>
                    /\ d.out.kind = "return"
                    /\ d.out.value[1] = "str"
                    /\ JsonLoads(d.out.value) =
                          <<"dict", "error", "Tool ", d.name, " failed: ", r.value[2]>>
              /\ (h # NoEntry /\ r.kind = "return" /\ r.value[1] = "str") => d.out = r
              /\ (h # NoEntry /\ r.kind = "return" /\ r.value[1] = "dict") =>
                    /\ d.out.kind = "return"
                    /\ d.out.value[1] = "str"
                    /\ d.out.value # r.value
                    /\ JsonLoads(d.out.value) = r.value
      ]_vars

\* C20 witness: with a failing handler registered under "fail" and another
\* handler under "echo", dispatch("fail", ...) returned the error envelope.
C20_Witness ==
    /\ tools["fail"] = "failing_handler"
    /\ tools["echo"] \in {"echo_handler", "string_handler"}
    /\ dispatched # <<>>
    /\ dispatched[1].name = "fail"
    /\ dispatched[1].out.kind = "return"
    /\ JsonLoads(dispatched[1].out.value) = <<"dict", "error", "Tool ", "fail", " failed: ", "boom">>

\* =====================================================================
\* SpecDialog: one call of MessageProcessor._call_with_tools.  The backend
\* answers each _api_call with any response (content blocks and a
\* stop_reason) or the call raises; tools are dispatched through a registry
\* with a working tool, a failing tool and no entry for "nonexistent".
\* A Python str is written as the sequence of its characters.
\* =====================================================================
MaxToolRounds == 2      \* MAX_TOOL_ROUNDS (20 in processor.py)
BlockIds == <<"tu1", "tu2">>   \* a response has at most two blocks; the i-th has id BlockIds[i]

NoResponse == <<"(no response)">>
MaxRoundsReached == <<"(max tool rounds reached)">>
Newline == "\n"

\* The registry the processor was built with
DialogRegistry ==
    [n \in CallNames |-> CASE n = "echo" -> "echo_handler"
                           [] n = "fail" -> "failing_handler"
                           [] OTHER -> NoEntry]

\* Content blocks of a response
TextBlock(text) == [type |-> "text", text |-> text, id |-> "", name |-> "", input |-> ""]
ToolUseBlock(i, name) ==
    [type |-> "tool_use", text |-> <<>>, id |-> BlockIds[i], name |-> name, input |-> "hello"]
BlocksAt(i) ==
    {TextBlock(<<>>), TextBlock(<<"a">>)} \cup {ToolUseBlock(i, n) : n \in CallNames}
Contents ==
    UNION {{c \in [1..n -> UNION {BlocksAt(i) : i \in 1..n}] :
               \A i \in 1..n : c[i] \in BlocksAt(i)} : n \in 0..Len(BlockIds)}
Responses == [content : Contents, stop_reason : {"end_turn", "tool_use"}]

\* "\n".join(parts)
RECURSIVE Join(_)
Join(parts) ==
    IF parts = <<>> THEN <<>>
    ELSE IF Len(parts) = 1 THEN parts[1]
    ELSE parts[1] \o <<Newline>> \o Join(Tail(parts))

\* The two passes over response.content: text_parts and tool_uses
RECURSIVE TextParts(_)
TextParts(content) ==
    IF content = <<>> THEN <<>>
    ELSE IF content[1].type = "text" THEN <<content[1].text>> \o TextParts(Tail(content))
    ELSE TextParts(Tail(content))
RECURSIVE ToolUses(_)
ToolUses(content) ==
    IF content = <<>> THEN <<>>
    ELSE IF content[1].type = "tool_use" THEN <<content[1]>> \o ToolUses(Tail(content))
    ELSE ToolUses(Tail(content))

\* `if not tool_uses or response.stop_reason == "end_turn":`
IsFinal(resp) == ToolUses(resp.content) = <<>> \/ resp.stop_reason = "end_turn"

\* `"\n".join(text_parts) if text_parts else <sentinel>`
TextOr(text_parts, sentinel) == IF text_parts # <<>> THEN Join(text_parts) ELSE sentinel

\* `for round_num in range(MAX_TOOL_ROUNDS)`: another round after round_num
MoreRoundsOffByOne(round_num) == round_num + 1 <= MaxToolRounds
MoreRounds(round_num) == round_num + 1 < MaxToolRounds

\* tool_results.append({"type": "tool_result", "tool_use_id": ..., "content": result})
AppendResultFirst(results, tool_use, result) ==
    <<[type |-> "tool_result", tool_use_id |-> tool_use.id, content |-> result]>> \o results
AppendResult(results, tool_use, result) ==
    Append(results, [type |-> "tool_result", tool_use_id |-> tool_use.id, content |-> result])

Message(role, content) == [role |-> role, content |-> content]

MainVars ==
    <<toolVars, bufVars, timeVars, botVars, procVars, storeVars, workerVars, histVars,
      shutVars, typing>>
DialogFrame == UNCHANGED <<MainVars, retry, gate, split, api, todo, exec>>

\* _process_impl: messages = [{"role": "user", "content": user_content}];
\* _call_with_tools is entered and awaits the first _api_call
T_Call ==
    /\ dialog.pc = "idle"
    /\ dialog' = [NoDialog EXCEPT !.pc = "api", !.api_calls = 1,
                                  !.messages = <<Message("user", <<"prompt">>)>>]
    /\ DialogFrame

\* _api_call returned the response `resp`: the blocks are sorted; a final response
\* returns the text; else the assistant message is appended and the first
\* tool is dispatched.
T_ApiReturn(resp) ==
    /\ dialog.pc = "api"
    /\ LET text_parts == TextParts(resp.content)
           tool_uses == ToolUses(resp.content)
       IN  IF IsFinal(resp)
             THEN dialog' = [dialog EXCEPT !.pc = "returned",
                                           !.text_parts = text_parts,
                                           !.tool_uses = tool_uses,
                                           !.ret = TextOr(text_parts, NoResponse)]
             ELSE dialog' = [dialog EXCEPT !.pc = "dispatch",
                                           !.text_parts = text_parts,
                                           !.tool_uses = tool_uses,
                                           !.tool_results = <<>>,
                                           !.messages = Append(@, Message("assistant",
                                                                          resp.content))]
    /\ DialogFrame

\* _api_call raised: the exception leaves _call_with_tools
T_ApiRaise ==
    /\ dialog.pc = "api"
    /\ dialog' = [dialog EXCEPT !.pc = "raised"]
    /\ DialogFrame

\* registry.dispatch returned for the next tool_use of the round. After the
\* last one the user message with the results is appended and the loop goes
\* on with the next _api_call, or ends at the round limit.
T_Dispatched ==
    /\ dialog.pc = "dispatch"
    /\ LET i == Len(dialog.tool_results) + 1
           tool_use == dialog.tool_uses[i]
           out == Dispatch(DialogRegistry, tool_use.name, tool_use.input)
           results == AppendResult(dialog.tool_results, tool_use, out.value)
       IN  IF out.kind = "raise"
             THEN dialog' = [dialog EXCEPT !.pc = "raised"]
           ELSE IF i < Len(dialog.tool_uses)
             THEN dialog' = [dialog EXCEPT !.tool_results = results]
           ELSE IF MoreRounds(dialog.round_num)
             THEN dialog' = [dialog EXCEPT !.tool_results = results,
                                           !.messages = Append(@, Message("user", results)),
                                           !.round_num = @ + 1,
                                           !.api_calls = @ + 1,
                                           !.pc = "api"]
           ELSE dialog' = [dialog EXCEPT !.tool_results = results,
                                         !.messages = Append(@, Message("user", results)),
                                         !.pc = "returned",
                                         !.ret = TextOr(dialog.text_parts, MaxRoundsReached)]
    /\ DialogFrame

NextDialog ==
    \/ T_Call
    \/ \E resp \in Responses : T_ApiReturn(resp)
    \/ T_ApiRaise
    \/ T_Dispatched

SpecDialog == Init /\ [][NextDialog]_vars

\* The tool rounds so far: the indices of the assistant messages.
ToolRounds == {j \in 1..Len(dialog.messages) : dialog.messages[j].role = "assistant"}
\* The results gathered for the assistant message at index j.
ResultsFor(j) ==
    IF j < Len(dialog.messages) THEN dialog.messages[j + 1].content ELSE dialog.tool_results
UnknownEnvelope(name) == <<"str", "json", "dict", "error", "Unknown tool: ", name>>
FailedEnvelope(name, msg) == <<"str", "json", "dict", "error", "Tool ", name, " failed: ", msg>>

(***************************************************************************)
(* C21: a failing or unknown tool never aborts the tool-use dialog: the    *)
(* error envelope is the content of that block's tool_result; the dialog   *)
(* goes on as after any tool, with the next backend call (as long as the   *)
(* round was not the MAX_TOOL_ROUNDS-th, where the loop ends for every     *)
(* tool); and _call_with_tools raises only when a backend call raised,     *)
(* never because of the tool error.                                        *)
(***************************************************************************)
C21_ToolErrorInBand ==
    /\ \A j \in ToolRounds :
          LET uses == ToolUses(dialog.messages[j].content)
              results == ResultsFor(j)
          IN  \A i \in 1..Len(results) :
                /\ uses[i].name = "nonexistent" =>
                      results[i].content = UnknownEnvelope("nonexistent")
                /\ uses[i].name = "fail" =>
                      results[i].content = FailedEnvelope("fail", "boom")
    /\ dialog.pc = "raised" => Len(dialog.tool_results) = Len(dialog.tool_uses)
    /\ dialog.pc = "dispatch" => Len(dialog.tool_results) < Len(dialog.tool_uses)
    /\ (Len(dialog.messages) > 1 /\ dialog.messages[Len(dialog.messages)].role = "user") =>
          LET done == Cardinality(ToolRounds)
          IN  IF done < MaxToolRounds
                THEN dialog.api_calls = done + 1
                ELSE dialog.api_calls = MaxToolRounds /\ dialog.pc = "returned"

\* C21 witness: the first response asked for the failing tool and for an
\* unknown one, both results went back to the backend in the next call and
\* that call's answer "a" was returned.
C21_Witness ==
    /\ dialog.pc = "returned"
    /\ dialog.api_calls = 2
    /\ dialog.ret = <<"a">>
    /\ Len(dialog.messages) = 3
    /\ Len(dialog.messages[2].content) = 2
    /\ dialog.messages[2].content[1].name = "fail"
    /\ dialog.messages[2].content[2].name = "nonexistent"
    /\ dialog.messages[3].content[1].content = FailedEnvelope("fail", "boom")
    /\ dialog.messages[3].content[2].content = UnknownEnvelope("nonexistent")

\* The backend and the tools answer: every started call of _call_with_tools
\* keeps taking its next step.
SpecDialogLive == Init /\ [][NextDialog]_vars /\ WF_vars(NextDialog)

\* The text fragments of the last response that asked for tools.
LastRoundText ==
    TextParts(dialog.messages[Len(dialog.messages) - 1].content)
\* _call_with_tools left its loop at the round limit: every one of the
\* MAX_TOOL_ROUNDS responses asked for tools, and the last message is the user
\* message with the results of the last round.
EndedAtLimit ==
    /\ dialog.pc = "returned"
    /\ Cardinality(ToolRounds) = MaxToolRounds
DialogBounded ==
    /\ dialog.api_calls <= MaxToolRounds
    /\ Cardinality(ToolRounds) <= MaxToolRounds
    /\ EndedAtLimit =>
          /\ dialog.api_calls = MaxToolRounds
          /\ dialog.messages[Len(dialog.messages)].role = "user"
          /\ dialog.ret = TextOr(LastRoundText, MaxRoundsReached)
          /\ LastRoundText = <<>> => dialog.ret = MaxRoundsReached

C28_WitnessSentinel ==
    /\ EndedAtLimit
    /\ dialog.ret = MaxRoundsReached

\* The tool_result expected for a tool_use block.
ResultOf(tool_use) ==
    [type |-> "tool_result", tool_use_id |-> tool_use.id,
     content |-> Dispatch(DialogRegistry, tool_use.name, tool_use.input).value]

(***************************************************************************)
(* C29: in a tool round the assistant message with the full content of the *)
(* response is appended before any tool is dispatched; the tools are       *)
(* dispatched in the order of their blocks; then one user message is       *)
(* appended with exactly one tool_result per tool_use block, in the same   *)
(* order and with the matching tool_use_id. The message list alternates    *)
(* user, assistant, user, ... starting with the prompt.                    *)
(***************************************************************************)
C29_RoundShape ==
    /\ \A j \in 1..Len(dialog.messages) :
          dialog.messages[j].role = (IF j % 2 = 1 THEN "user" ELSE "assistant")
    /\ Len(dialog.messages) >= 1 => dialog.messages[1] = Message("user", <<"prompt">>)
    /\ \A j \in ToolRounds :
          LET uses == ToolUses(dialog.messages[j].content)
              results == ResultsFor(j)
          IN  /\ uses # <<>>
              /\ Len(results) <= Len(uses)
              /\ j < Len(dialog.messages) => Len(results) = Len(uses)
              /\ \A i \in 1..Len(results) : results[i] = ResultOf(uses[i])
    /\ dialog.pc = "dispatch" =>
          LET last == dialog.messages[Len(dialog.messages)]
          IN  /\ last.role = "assistant"
              /\ dialog.tool_uses = ToolUses(last.content)
              /\ dialog.text_parts = TextParts(last.content)
              /\ Len(last.content) = Len(dialog.tool_uses) + Len(dialog.text_parts)

\* C29 witness: a round with two tool_use blocks and the user message with
\* their two results, in the order of the blocks.
C29_Witness ==
    /\ Len(dialog.messages) >= 3
    /\ Len(ToolUses(dialog.messages[2].content)) = 2
    /\ Len(dialog.messages[3].content) = 2
    /\ dialog.messages[3].content[1].tool_use_id = ToolUses(dialog.messages[2].content)[1].id
    /\ dialog.messages[3].content[2].tool_use_id = ToolUses(dialog.messages[2].content)[2].id
    /\ dialog.messages[3].content[1].tool_use_id # dialog.messages[3].content[2].tool_use_id

(***************************************************************************)
(* C30: the text returned by _call_with_tools for a final response (no     *)
(* tool_use block, or stop_reason end_turn) is never the empty string.     *)
(* Violated: for a response whose only text fragments are empty the list   *)
(* of fragments is not empty, so the join, "", is returned in place of     *)
(* the sentinel.                                                           *)
(***************************************************************************)
C30_NeverEmpty ==
    dialog.pc = "returned" => dialog.ret # <<>>

(***************************************************************************)
(* retry_with_backoff (retry.py): one call, for every max_retries,         *)
(* backoff_base, backoff_max and predicate of a small set and every        *)
(* outcome of each invocation of fn. Delays are whole seconds.             *)
(***************************************************************************)
MaxRetries == 2         \* the largest max_retries tried
BackoffBases == {1, 2}
BackoffMaxes == {3, 60}
\* fn raises a ValueError or a TypeError; the predicate is the default
\* (every exception is retriable) or `isinstance(e, ValueError)`
ErrorTypes == {"ValueError", "TypeError"}
Predicates == {"default", "value_errors"}
Exc(type, n) == [type |-> type, n |-> n]

Min(a, b) == IF a < b THEN a ELSE b
RetriableAll(pred, e) == TRUE
Retriable(pred, e) == pred = "default" \/ e.type = "ValueError"
ExhaustedLate(attempt, max_retries) == attempt > max_retries
Exhausted(attempt, max_retries) == attempt >= max_retries
DelayUncapped(backoff_base, attempt, backoff_max) == backoff_base * (2 ^ attempt)
Delay(backoff_base, attempt, backoff_max) == Min(backoff_base * (2 ^ attempt), backoff_max)

RetryFrame == UNCHANGED <<MainVars, dialog, gate, split, api, todo, exec>>

\* retry_with_backoff(fn, max_retries=, backoff_base=, backoff_max=, retriable=):
\* the loop starts with attempt 0 and awaits fn
Rt_Call(max_retries, backoff_base, backoff_max, pred) ==
    /\ retry.pc = "idle"
    /\ retry' = [NoRetry EXCEPT !.pc = "calling", !.max_retries = max_retries,
                                !.backoff_base = backoff_base,
                                !.backoff_max = backoff_max, !.retriable = pred]
    /\ RetryFrame

\* fn returned: its value is returned
Rt_FnReturns ==
    /\ retry.pc = "calling"
    /\ retry' = [retry EXCEPT !.pc = "returned", !.invocations = @ + 1, !.ret = "ok"]
    /\ RetryFrame

\* fn raised an exception of the given type: it is re-raised when it is not
\* retriable, wrapped when the attempts are used up, and else the delay of
\* the attempt is slept
Rt_FnRaises(type) ==
    /\ retry.pc = "calling"
    /\ LET e == Exc(type, retry.invocations + 1)
           called == [retry EXCEPT !.invocations = @ + 1, !.errors = Append(@, e)]
       IN  IF ~Retriable(retry.retriable, e)
             THEN retry' = [called EXCEPT !.pc = "raised", !.exc = e]
           ELSE IF Exhausted(retry.attempt, retry.max_retries)
             THEN retry' = [called EXCEPT !.pc = "raised", !.exc = e, !.wrapped = TRUE,
                                          !.attempts = retry.attempt + 1]
           ELSE retry' = [called EXCEPT
                              !.pc = "sleeping",
                              !.sleeps = Append(@, Delay(retry.backoff_base, retry.attempt,
                                                         retry.backoff_max))]
    /\ RetryFrame

\* asyncio.sleep(delay) is over: the next attempt
Rt_Wake ==
    /\ retry.pc = "sleeping"
    /\ retry' = [retry EXCEPT !.pc = "calling", !.attempt = @ + 1]
    /\ RetryFrame

NextRetry ==
    \/ \E max_retries \in 0..MaxRetries, backoff_base \in BackoffBases,
          backoff_max \in BackoffMaxes, pred \in Predicates :
            Rt_Call(max_retries, backoff_base, backoff_max, pred)
    \/ Rt_FnReturns
    \/ \E type \in ErrorTypes : Rt_FnRaises(type)
    \/ Rt_Wake

SpecRetry == Init /\ [][NextRetry]_vars

\* The exception of invocation i was retriable under the call's predicate.
WasRetriable(i) ==
    retry.retriable = "default" \/ retry.errors[i].type = "ValueError"
\* The delay expected after the failed attempt number i (counted from 0).
ExpectedSleep(i) ==
    IF retry.backoff_base * (2 ^ i) <= retry.backoff_max
      THEN retry.backoff_base * (2 ^ i) ELSE retry.backoff_max

(***************************************************************************)
(* C22: when fn fails k times with retriable errors and then succeeds, and *)
(* k <= max_retries, retry_with_backoff returns the value after exactly    *)
(* k+1 invocations, and the sleeps made are, in order, min(b*2^i, cap) for *)
(* i = 0..k-1. It never gives up before max_retries+1 invocations.         *)
(***************************************************************************)
C22_RetryArithmetic ==
    /\ \A i \in 1..Len(retry.sleeps) : retry.sleeps[i] = ExpectedSleep(i - 1)
    /\ retry.pc = "returned" =>
          /\ retry.ret = "ok"
          /\ retry.invocations = Len(retry.errors) + 1
          /\ Len(retry.sleeps) = Len(retry.errors)
          /\ Len(retry.errors) <= retry.max_retries
          /\ \A i \in 1..Len(retry.errors) : WasRetriable(i)
    /\ (retry.pc = "raised" /\ \A i \in 1..Len(retry.errors) : WasRetriable(i)) =>
          Len(retry.errors) > retry.max_retries

\* C22 witness: two failures, max_retries = 2, base 2, cap 3: the value is
\* returned at the third invocation after sleeps of 2 and of 3 (4, capped).
C22_Witness ==
    /\ retry.pc = "returned"
    /\ retry.max_retries = 2 /\ retry.backoff_base = 2 /\ retry.backoff_max = 3
    /\ retry.invocations = 3
    /\ retry.sleeps = <<2, 3>>

(***************************************************************************)
(* C23: when every attempt fails with a retriable error, fn is invoked     *)
(* exactly max_retries+1 times, with max_retries sleeps, and then          *)
(* MaxRetriesExceeded is raised with attempts = max_retries+1 and          *)
(* last_error the exception of the last invocation; fn is never invoked    *)
(* more often. With max_retries = 0: one invocation, no sleep.             *)
(***************************************************************************)
C23_Exhausted ==
    /\ retry.invocations <= retry.max_retries + 1
    /\ (retry.pc = "raised" /\ \A i \in 1..Len(retry.errors) : WasRetriable(i)) =>
          /\ retry.wrapped
          /\ retry.invocations = retry.max_retries + 1
          /\ retry.attempts = retry.max_retries + 1
          /\ retry.exc = retry.errors[retry.invocations]
          /\ retry.exc.n = retry.invocations
          /\ Len(retry.sleeps) = retry.max_retries
    /\ retry.wrapped =>
          retry.pc = "raised" /\ \A i \in 1..Len(retry.errors) : WasRetriable(i)

\* C23 witnesses: three failed invocations with max_retries = 2, and the
\* single invocation with max_retries = 0.
C23_Witness ==
    /\ retry.pc = "raised" /\ retry.wrapped
    /\ retry.max_retries = 2 /\ retry.attempts = 3
    /\ Len(retry.sleeps) = 2
C23_WitnessZero ==
    /\ retry.pc = "raised" /\ retry.wrapped
    /\ retry.max_retries = 0 /\ retry.invocations = 1 /\ retry.sleeps = <<>>

(***************************************************************************)
(* C24: an exception for which the predicate is false leaves               *)
(* retry_with_backoff at once, at whichever attempt it is raised: the same *)
(* exception, not wrapped in MaxRetriesExceeded, with no sleep after it    *)
(* and no further invocation of fn.                                        *)
(***************************************************************************)
C24_NonRetriable ==
    \A i \in 1..Len(retry.errors) :
        ~WasRetriable(i) =>
            /\ i = Len(retry.errors)
            /\ retry.pc = "raised"
            /\ ~retry.wrapped
            /\ retry.exc = retry.errors[i]
            /\ retry.invocations = i
            /\ Len(retry.sleeps) = i - 1

\* C24 witness: the TypeError comes at the second attempt, after a retried
\* ValueError, and at the first.
C24_Witness ==
    /\ retry.pc = "raised"
    /\ retry.retriable = "value_errors"
    /\ retry.exc = Exc("TypeError", 2)
    /\ ~retry.wrapped
    /\ Len(retry.sleeps) = 1

(***************************************************************************)
(* The ingress handlers of create_application (bot.py): handle_message and *)
(* handle_voice, each run to its end for one update.                       *)
(***************************************************************************)
MaxUpdates == 2         \* updates handled in one run
MaxVoiceDuration == 60  \* settings.max_voice_duration
AllowedChatIds == {123}
UpdateChatIds == {123, 999}
\* str(msg.chat_id)
ChatIdStr(chat_id) == CASE chat_id = 123 -> "123" [] chat_id = 999 -> "999"
\* what recognize() gives: None, an empty text or the transcription
Transcripts == {"None", "", "hello"}
\* update.message of a text/photo/document update: None, or a message with
\* its chat, and its text or caption (msg.text or msg.caption or "")
TextUpdates ==
    [has_message : BOOLEAN, chat_id : UpdateChatIds, text : {"", "hi"}, is_bot : {FALSE},
     duration : {0}]
\* update.message of a voice update
VoiceUpdates ==
    [has_message : BOOLEAN, chat_id : UpdateChatIds, text : {""}, is_bot : BOOLEAN,
     duration : {MaxVoiceDuration, MaxVoiceDuration + 1}]

IsAuthorizedAny(chat_id, allowed_ids) == TRUE
IsAuthorized(chat_id, allowed_ids) == chat_id \in allowed_ids

GateFrame == UNCHANGED <<MainVars, dialog, retry, split, api, todo, exec>>

\* The message_id of the update being handled.
MessageId == Len(gate.updates) + 1
Handled(g, handler, update) ==
    [g EXCEPT !.updates = Append(@, [handler |-> handler, message_id |-> MessageId,
                                     update |-> update])]
\* react_eyes: set_message_reaction is called; its failure is swallowed
ReactEyes(g, chat_id, ok) ==
    [g EXCEPT !.reactions = Append(@, [chat_id |-> chat_id, message_id |-> MessageId,
                                       ok |-> ok])]
ReplyText(g, chat_id, text) ==
    [g EXCEPT !.replies = Append(@, [chat_id |-> chat_id, message_id |-> MessageId,
                                     text |-> text])]
OnMessageCall(g, chat_id, text, source) ==
    [g EXCEPT !.on_message = Append(@, [chat_id |-> ChatIdStr(chat_id),
                                        message_id |-> MessageId,
                                        text |-> text, source |-> source])]

\* create_application: the voice handler is registered only with SpeechKit
G_Create(speechkit) ==
    /\ ~gate.built
    /\ gate' = [gate EXCEPT !.built = TRUE, !.voice = speechkit]
    /\ GateFrame

\* handle_message(update, context)
G_HandleMessage(update, reaction_ok) ==
    /\ gate.built
    /\ Len(gate.updates) < MaxUpdates
    /\ LET g == Handled(gate, "text", update)
       IN  IF ~update.has_message
             THEN gate' = g
           ELSE IF ~IsAuthorized(update.chat_id, AllowedChatIds)
             THEN gate' = g
           ELSE IF update.text = ""
             THEN gate' = g
           ELSE gate' = OnMessageCall(ReactEyes(g, update.chat_id, reaction_ok),
                                      update.chat_id, update.text, "text")
    /\ GateFrame

\* extract_voice_event: the replies it sends and the text it returns ("None"
\* when it returns no event)
VoiceEvent(g, update, transcript) ==
    IF update.is_bot
      THEN [gate |-> g, text |-> "None"]
    ELSE IF update.duration > MaxVoiceDuration
      THEN [gate |-> ReplyText(g, update.chat_id, "Voice message too long"),
            text |-> "None"]
    ELSE IF transcript = "None"
      THEN [gate |-> ReplyText(g, update.chat_id, "Could not transcribe voice message."),
            text |-> "None"]
    ELSE IF transcript = ""
      THEN [gate |-> ReplyText(g, update.chat_id, "Could not recognize speech."),
            text |-> "None"]
    ELSE [gate |-> g, text |-> transcript]

\* handle_voice(update, context)
G_HandleVoice(update, reaction_ok, transcript) ==
    /\ gate.built /\ gate.voice
    /\ Len(gate.updates) < MaxUpdates
    /\ LET g == Handled(gate, "voice", update)
       IN  IF ~update.has_message
             THEN gate' = g
           ELSE IF ~IsAuthorized(update.chat_id, AllowedChatIds)
             THEN gate' = g
           ELSE LET ev == VoiceEvent(ReactEyes(g, update.chat_id, reaction_ok),
                                     update, transcript)
                IN  IF ev.text = "None"
                      THEN gate' = ev.gate
                      ELSE gate' = OnMessageCall(ev.gate, update.chat_id, ev.text, "voice")
    /\ GateFrame

NextGate ==
    \/ \E speechkit \in BOOLEAN : G_Create(speechkit)
    \/ \E update \in TextUpdates, reaction_ok \in BOOLEAN :
          G_HandleMessage(update, reaction_ok)
    \/ \E update \in VoiceUpdates, reaction_ok \in BOOLEAN, transcript \in Transcripts :
          G_HandleVoice(update, reaction_ok, transcript)

SpecGate == Init /\ [][NextGate]_vars

\* The chat ids of the messages (updates with a message) handled so far that
\* are not in the allow-list, by handler.
UnauthorizedSeen(handler) ==
    {i \in 1..Len(gate.updates) :
        /\ gate.updates[i].handler = handler
        /\ gate.updates[i].update.has_message
        /\ gate.updates[i].update.chat_id \notin AllowedChatIds}

(***************************************************************************)
(* C25: a message from a chat id that is not in the allow-list causes no   *)
(* on_message call (no buffer insertion), no reaction and no reply, in     *)
(* the text handler and in the voice handler.                              *)
(***************************************************************************)
C25_UnauthorizedIgnored ==
    \A i \in UnauthorizedSeen("text") \cup UnauthorizedSeen("voice") :
        /\ \A j \in 1..Len(gate.on_message) :
              /\ gate.on_message[j].message_id # i
              /\ gate.on_message[j].chat_id # ChatIdStr(gate.updates[i].update.chat_id)
        /\ \A j \in 1..Len(gate.reactions) :
              /\ gate.reactions[j].message_id # i
              /\ gate.reactions[j].chat_id # gate.updates[i].update.chat_id
        /\ \A j \in 1..Len(gate.replies) :
              /\ gate.replies[j].message_id # i
              /\ gate.replies[j].chat_id # gate.updates[i].update.chat_id

\* C25 witness: each handler has handled a message of the chat 999 that it
\* would have accepted from an allowed chat (a text; a voice message of a
\* user, within the duration limit), and nothing was forwarded, reacted to
\* or replied.
C25_Witness ==
    /\ \E i \in UnauthorizedSeen("text") : gate.updates[i].update.text = "hi"
    /\ \E i \in UnauthorizedSeen("voice") :
          /\ ~gate.updates[i].update.is_bot
          /\ gate.updates[i].update.duration <= MaxVoiceDuration
    /\ gate.on_message = <<>> /\ gate.reactions = <<>> /\ gate.replies = <<>>

(***************************************************************************)
(* split_message (bot.py): a text is a sequence of characters, one of a    *)
(* letter, a space and a newline; one action per iteration of the loop.    *)
(***************************************************************************)
MaxTextLen == 4         \* the longest text split
MaxSplitLength == 3     \* the largest max_length tried
MaxChunks == 4          \* the iterations followed of a call that does not end
Chars == {"a", " ", Newline}
SplitTexts == UNION {[1..n -> Chars] : n \in 0..MaxTextLen}

\* text.rfind(sub, 0, end): the highest index (from 0) at which sub occurs
\* within text[0:end], or -1
RFind(text, sub, end) ==
    LET stop == Min(end, Len(text))
        at == {i \in 0..stop : /\ i + Len(sub) <= stop
                               /\ SubSeq(text, i + 1, i + Len(sub)) = sub}
    IN  IF at = {} THEN -1 ELSE CHOOSE i \in at : \A j \in at : j <= i

\* text.lstrip("\n"), and the mutant text.lstrip()
RECURSIVE LStripWhitespace(_)
LStripWhitespace(text) ==
    IF text # <<>> /\ Head(text) \in {Newline, " "}
      THEN LStripWhitespace(Tail(text)) ELSE text
RECURSIVE LStrip(_)
LStrip(text) ==
    IF text # <<>> /\ Head(text) = Newline THEN LStrip(Tail(text)) ELSE text

\* the index at which an over-long text is split: the last paragraph break,
\* else the last newline, else the last space of the window, else its end
SplitIdx(text, max_length) ==
    LET para == RFind(text, <<Newline, Newline>>, max_length)
        line == RFind(text, <<Newline>>, max_length)
        space == RFind(text, <<" ">>, max_length)
    IN  IF para # -1 THEN para
        ELSE IF line # -1 THEN line
        ELSE IF space # -1 THEN space
        ELSE max_length

SplitFrame == UNCHANGED <<MainVars, dialog, retry, gate, api, todo, exec>>

\* split_message(text, max_length): a text that fits is returned whole
S_Call(text, max_length) ==
    /\ split.pc = "idle"
    /\ split' = IF Len(text) <= max_length
                  THEN [NoSplit EXCEPT !.pc = "returned", !.input = text,
                                       !.max_length = max_length, !.chunks = <<text>>]
                  ELSE [NoSplit EXCEPT !.pc = "loop", !.input = text,
                                       !.max_length = max_length, !.text = text]
    /\ SplitFrame

\* one iteration of `while text:`
S_Iterate ==
    /\ split.pc = "loop"
    /\ Len(split.chunks) < MaxChunks
    /\ split' =
         IF split.text = <<>>
           THEN [split EXCEPT !.pc = "returned"]
         ELSE IF Len(split.text) <= split.max_length
           THEN [split EXCEPT !.pc = "returned", !.chunks = Append(@, split.text)]
         ELSE LET split_idx == SplitIdx(split.text, split.max_length)
              IN  [split EXCEPT
                      !.chunks = Append(@, SubSeq(split.text, 1, split_idx)),
                      !.text = LStrip(SubSeq(split.text, split_idx + 1, Len(split.text)))]
    /\ SplitFrame

NextSplit ==
    \/ \E text \in SplitTexts, max_length \in 1..MaxSplitLength : S_Call(text, max_length)
    \/ S_Iterate

SpecSplit == Init /\ [][NextSplit]_vars

AllNewlines(text) == \A i \in 1..Len(text) : text[i] = Newline
\* text is the chunks in their order, with a run of newlines (possibly
\* empty) left out after each chunk: the newlines trimmed from the start of
\* the text that remained after the split. After the last chunk it is the
\* whole remaining text, when that was newlines only.
RECURSIVE Rebuilds(_, _)
Rebuilds(text, chunks) ==
    IF chunks = <<>> THEN text = <<>>
    ELSE LET c == Head(chunks)
             n == Len(c)
         IN  /\ n <= Len(text)
             /\ SubSeq(text, 1, n) = c
             /\ \E k \in 0..(Len(text) - n) :
                   /\ AllNewlines(SubSeq(text, n + 1, n + k))
                   /\ Rebuilds(SubSeq(text, n + k + 1, Len(text)), Tail(chunks))

(***************************************************************************)
(* C26: every chunk split_message returns has at most max_length           *)
(* characters, and the chunks concatenated are the input except for the    *)
(* newlines trimmed from the start of what followed each split: no         *)
(* non-first chunk starts with a newline and nothing but newlines between  *)
(* chunks is missing.                                                      *)
(***************************************************************************)
C26_Chunks ==
    /\ \A i \in 1..Len(split.chunks) : Len(split.chunks[i]) <= split.max_length
    /\ \A i \in 2..Len(split.chunks) :
          split.chunks[i] # <<>> => split.chunks[i][1] # Newline
    /\ split.pc = "returned" => Rebuilds(split.input, split.chunks)

\* C26 witness: "a\n\na" is split with max_length 3 at the paragraph break,
\* and the two newlines are trimmed from the second chunk.
C26_Witness ==
    /\ split.pc = "returned"
    /\ split.max_length = 3
    /\ split.input = <<"a", Newline, Newline, "a">>
    /\ split.chunks = << <<"a">>, <<"a">> >>

\* What BuddyBot and its processor hold for one chat: the failure counter,
\* the buffer, the task with its position and batch, and the chat's lock.
ChatState(c) ==
    <<consecutive_failures[c], buffers[c], tasks[c], pc[c], batch[c], locks[c]>>
\* A step touches the state of one chat at most.
OneChatPerStep ==
    \A a, b \in Chats :
        (a # b /\ ChatState(a)' # ChatState(a)) => ChatState(b)' = ChatState(b)

(***************************************************************************)
(* C27: chats are independent. No task ever waits for a lock (the lock is  *)
(* per chat and a chat has one task), so a PROCESS of chat B starts and    *)
(* runs whatever chat A is doing; and every step of the program (an        *)
(* arrival, a step of a cycle, a failure, a requeue or a drop of chat A)   *)
(* leaves the failure counter, buffer, task and lock of every other chat   *)
(* unchanged.                                                              *)
(***************************************************************************)
C27_ChatsIndependent ==
    /\ [](\A c \in Chats : pc[c] # "lock_wait" /\ locks[c].waiters = <<>>)
    /\ [][OneChatPerStep]_vars

\* C27 witness: both chats are inside _process_impl at once, chat A in the
\* cycle after a failed one and chat B with no failure counted.
C27_Witness ==
    /\ InImpl("A") /\ InImpl("B")
    /\ consecutive_failures["A"] = 1
    /\ consecutive_failures["B"] = 0

(***************************************************************************)
(* MessageProcessor._api_call (processor.py): one call, for every outcome  *)
(* of each messages.create. The errors are the SDK's classes; a 529        *)
(* reaches the handler as an InternalServerError or as a plain             *)
(* APIStatusError, depending on the SDK.                                   *)
(***************************************************************************)
RETRY_DELAYS == <<1, 2, 4>>
OVERLOADED_DELAY == 30
ApiErrors ==
    {"RateLimitError", "InternalServerError", "InternalServerError529",
     "APIStatusError529", "BadRequestError", "AuthenticationError", "ValueError"}
\* isinstance(e, anthropic.InternalServerError), isinstance(e, anthropic.APIStatusError)
IsInternalServerError(e) == e \in {"InternalServerError", "InternalServerError529"}
IsAPIStatusError(e) == e # "ValueError"
StatusCode(e) ==
    CASE e = "RateLimitError" -> 429
      [] e = "InternalServerError" -> 500
      [] e \in {"InternalServerError529", "APIStatusError529"} -> 529
      [] e = "BadRequestError" -> 400
      [] e = "AuthenticationError" -> 401
      [] OTHER -> 0

\* `for attempt, delay in enumerate(RETRY_DELAYS)`: the attempts made in the
\* loop; the one after them is the final attempt without retry
InLoopOneMore(attempt) == attempt <= Len(RETRY_DELAYS)
InLoop(attempt) == attempt < Len(RETRY_DELAYS)

\* The except clauses of the loop, in their order: the delay slept before
\* the next attempt, or -1 when the exception is raised again.
RetrySleep(e, attempt) ==
    IF e = "RateLimitError"
      THEN IF attempt < Len(RETRY_DELAYS) - 1 THEN RETRY_DELAYS[attempt + 1] ELSE -1
    ELSE IF IsInternalServerError(e)
      THEN IF attempt = 0 THEN 2 ELSE -1
    ELSE IF IsAPIStatusError(e)
      THEN IF StatusCode(e) = 529 THEN OVERLOADED_DELAY ELSE -1
    ELSE -1

ApiFrame == UNCHANGED <<MainVars, dialog, retry, gate, split, todo, exec>>

\* _api_call(system_prompt, messages, tools): the first messages.create
A_Call ==
    /\ api.pc = "idle"
    /\ api' = [NoApi EXCEPT !.pc = "calling"]
    /\ ApiFrame

\* messages.create returned a response: it is returned
A_Returns ==
    /\ api.pc = "calling"
    /\ api' = [api EXCEPT !.pc = "returned", !.attempts = @ + 1]
    /\ ApiFrame

\* messages.create raised e: in the loop the matching except clause sleeps
\* or raises; the final attempt has no handler
A_Raises(e) ==
    /\ api.pc = "calling"
    /\ LET n == api.attempts + 1
           called == [api EXCEPT !.attempts = n, !.errors = Append(@, e)]
           delay == RetrySleep(e, api.attempt)
       IN  IF InLoop(api.attempt) /\ delay # -1
             THEN api' = [called EXCEPT !.pc = "sleeping", !.sleeps = Append(@, delay)]
             ELSE api' = [called EXCEPT !.pc = "raised", !.exc = Exc(e, n)]
    /\ ApiFrame

\* asyncio.sleep is over: the next iteration, or the final attempt
A_Wake ==
    /\ api.pc = "sleeping"
    /\ api' = [api EXCEPT !.pc = "calling", !.attempt = @ + 1]
    /\ ApiFrame

NextApi ==
    \/ A_Call
    \/ A_Returns
    \/ \E e \in ApiErrors : A_Raises(e)
    \/ A_Wake

SpecApi == Init /\ [][NextApi]_vars
\* The backend answers every request and every sleep ends.
SpecApiLive == Init /\ [][NextApi]_vars /\ WF_vars(NextApi)

\* The retriable classes: rate-limit, transient server errors, overload (529).
RetriableClass(e) ==
    e \in {"RateLimitError", "InternalServerError", "InternalServerError529",
           "APIStatusError529"}
\* The attempts one backend call may make.
MaxAttempts == Len(RETRY_DELAYS) + 1
\* The error of attempt i ended the call: it was raised, nothing followed.
RaisedAt(i) == api.pc = "raised" /\ Len(api.errors) = i
\* A non-retriable error leaves the call at its first occurrence.
NonRetriablePropagates ==
    \A i \in 1..Len(api.errors) :
        ~RetriableClass(api.errors[i]) =>
            /\ RaisedAt(i)
            /\ api.exc = Exc(api.errors[i], i)
            /\ api.attempts = i
            /\ Len(api.sleeps) = i - 1

(***************************************************************************)
(* C31: within one _api_call a rate-limit, server or overload error is     *)
(* retried after a sleep as long as attempts are left, so that a           *)
(* following success is returned; any other error is raised at its first   *)
(* occurrence, with no sleep and no further attempt. Violated: a server    *)
(* error at any attempt but the first, and a rate-limit error at the       *)
(* third attempt, are raised at once although an attempt is left.          *)
(***************************************************************************)
C31_RetriableRetried ==
    /\ NonRetriablePropagates
    /\ \A i \in 1..Len(api.errors) :
          (RetriableClass(api.errors[i]) /\ i < MaxAttempts) =>
              /\ ~RaisedAt(i)
              /\ Len(api.sleeps) >= i
    /\ api.pc = "returned" =>
          api.attempts = Len(api.errors) + 1 /\ Len(api.sleeps) = Len(api.errors)

(***************************************************************************)
(* C32: _api_call behaves as retry_with_backoff with the retriable-class   *)
(* predicate: the sleeps are min(base * 2^i, cap) for the attempts         *)
(* i = 0, 1, ..., and when retriable errors persist the call ends with     *)
(* MaxRetriesExceeded after max_retries + 1 attempts. Violated:            *)
(* _api_call has its own loop, with other delays, and raises the           *)
(* backend's exception itself.                                             *)
(***************************************************************************)
C32_AsRetryHarness ==
    /\ \A i \in 1..Len(api.sleeps) :
          api.sleeps[i] = Delay(RETRY_DELAYS[1], i - 1, 60)
    /\ (api.pc = "raised" /\ \A i \in 1..Len(api.errors) : RetriableClass(api.errors[i])) =>
          /\ api.exc.type = "MaxRetriesExceeded"
          /\ api.attempts = MaxAttempts

(***************************************************************************)
(* C33: whatever the backend answers, _api_call makes at most              *)
(* len(RETRY_DELAYS) + 1 = 4 attempts and then returns a response or       *)
(* raises: it never retries forever.                                       *)
(***************************************************************************)
C33_AtMostFourAttempts ==
    /\ [](/\ api.attempts <= Len(RETRY_DELAYS) + 1
          /\ api.attempts <= 4
          /\ Len(api.sleeps) <= Len(RETRY_DELAYS)
          /\ api.pc \in {"calling", "sleeping"} => api.attempts <= Len(RETRY_DELAYS))
    /\ (api.pc = "calling") ~> (api.pc \in {"returned", "raised"})

\* C33 witness: three overload errors were slept out and the fourth, final
\* attempt failed too: the call raised after four attempts.
C33_Witness ==
    /\ api.pc = "raised"
    /\ api.attempts = 4
    /\ api.sleeps = <<OVERLOADED_DELAY, OVERLOADED_DELAY, OVERLOADED_DELAY>>

(***************************************************************************)
(* C34: on_message always puts the event into the chat's buffer, and it    *)
(* creates a processing task only when none is running for the chat: at    *)
(* any moment at most one task of a chat has been created and not          *)
(* finished, it is the one _tasks holds, and a chat that got a message     *)
(* has had a task.                                                         *)
(***************************************************************************)
C34_OneTaskPerChat ==
    \A c \in Chats :
        /\ live[c] \in {0, 1}
        /\ live[c] = 1 <=> tasks[c] = "running"
        /\ tasks[c] # "running" => pc[c] = "idle"
        /\ arrived[c] \subseteq Ids(buffers[c].events)
        /\ tasks[c] = "none" => arrived[c] = {} /\ BufIsEmpty(buffers[c])

\* C34 witness: chat A got a second message while its task was inside
\* process: the event is in the buffer and no second task was created.
C34_Witness ==
    /\ InImpl("A")
    /\ live["A"] = 1
    /\ arrived["A"] # {}
    /\ ~BufIsEmpty(buffers["A"])

(***************************************************************************)
(* C35: no accepted event is stranded: whenever a chat's buffer is not     *)
(* empty, a live task of the chat exists that will drain it. Violated: the *)
(* task exits at the third consecutive failure without looking at the      *)
(* buffer, so events added after its last drain stay there with no task.   *)
(***************************************************************************)
C35_NoStrandedEvent ==
    \A c \in Chats : ~BufIsEmpty(buffers[c]) => tasks[c] = "running"

\* The turns stored that hold the text of event n.
TurnsWith(n) == {i \in 1..Len(db.turns) : n \in Range(db.turns[i].user_text)}

(***************************************************************************)
(* C36: a cycle that is counted as failed has persisted no turn, so no     *)
(* event is ever in two stored turns. Violated: when clear_fallback raises *)
(* after save_turn has stored the turn, the cycle fails, the batch is      *)
(* requeued, and its next successful cycle stores a second turn.           *)
(***************************************************************************)
C36_FailedStoresNothing ==
    /\ \A c \in Chats :
          lastCycle[c].result \in {"requeued", "dropped"} =>
              \A n \in Ids(lastCycle[c].batch) : TurnsWith(n) = {}
    /\ \A n \in 1..MaxEvents : Cardinality(TurnsWith(n)) <= 1

\* An iteration of the loop of split_message that goes on to another one.
LoopsOn == split.pc = "loop" /\ split'.pc = "loop" /\ split' # split

(***************************************************************************)
(* C37: split_message ends for every text and every max_length >= 1:       *)
(* every iteration of its loop removes at least one character from the     *)
(* remaining text, and every chunk of a non-empty text is non-empty, also  *)
(* when the only break character of the window is at index 0. Violated:    *)
(* a break found at index 0 gives the empty chunk text[:0]; when it is a   *)
(* space nothing is stripped and the loop goes on with the same text.      *)
(***************************************************************************)
C37_SplitProgress ==
    /\ [](\A i \in 1..Len(split.chunks) :
             split.input # <<>> => split.chunks[i] # <<>>)
    /\ [][LoopsOn => Len(split'.text) < Len(split.text)]_vars

(***************************************************************************)
(* The todo tools (tools/todo.py) on the TodoStore (todo.py), called from  *)
(* the cycles of the chat tasks: _processing_loop sets the shared          *)
(* chat_id_ref and awaits process(), in which the tool calls are           *)
(* dispatched.                                                             *)
(***************************************************************************)
MaxTodoCalls == 2       \* tool calls made in one run
TodoOps == {"todo_add", "todo_list", "todo_complete", "todo_delete"}

\* _chat_id(): chat_id_ref.get("chat_id", "default")
ChatIdOf(t) == t.chat_id_ref

\* TodoStore._add_sync: INSERT, the id is the autoincrement
TodoAdd(t, chat_id, title) ==
    [t EXCEPT !.todos = Append(@, [id |-> t.next_id, chat_id |-> chat_id, title |-> title,
                                   status |-> "pending"]),
              !.next_id = @ + 1]
\* the rows WHERE id = ? AND chat_id = ?
TodoRows(t, chat_id, todo_id) ==
    {i \in 1..Len(t.todos) : t.todos[i].id = todo_id /\ t.todos[i].chat_id = chat_id}
\* TodoStore._list_sync: SELECT ... WHERE chat_id = ?
TodoList(t, chat_id) ==
    {t.todos[i].id : i \in {j \in 1..Len(t.todos) : t.todos[j].chat_id = chat_id}}
\* TodoStore._complete_sync: UPDATE ... WHERE id = ? AND chat_id = ?
TodoComplete(t, chat_id, todo_id) ==
    [t EXCEPT !.todos = [i \in 1..Len(@) |->
                            IF i \in TodoRows(t, chat_id, todo_id)
                              THEN [@[i] EXCEPT !.status = "done"] ELSE @[i]]]
\* TodoStore._delete_sync: DELETE ... WHERE id = ? AND chat_id = ?
RECURSIVE WithoutRow(_, _, _)
WithoutRow(rows, chat_id, todo_id) ==
    IF rows = <<>> THEN <<>>
    ELSE IF Head(rows).id = todo_id /\ Head(rows).chat_id = chat_id
      THEN WithoutRow(Tail(rows), chat_id, todo_id)
      ELSE <<Head(rows)>> \o WithoutRow(Tail(rows), chat_id, todo_id)
TodoDelete(t, chat_id, todo_id) ==
    [t EXCEPT !.todos = WithoutRow(@, chat_id, todo_id)]

TodoFrame == UNCHANGED <<MainVars, dialog, retry, gate, split, api, exec>>

\* _processing_loop of chat c, after the drain:
\* self._chat_id_ref["chat_id"] = chat_id, then process() is awaited
Td_BeginCycle(c) ==
    /\ todo.cycle[c] = "idle"
    /\ todo' = [todo EXCEPT !.chat_id_ref = c, !.cycle[c] = "process"]
    /\ TodoFrame

\* process() of chat c returned or raised
Td_EndCycle(c) ==
    /\ todo.cycle[c] = "process"
    /\ todo' = [todo EXCEPT !.cycle[c] = "idle"]
    /\ TodoFrame

\* The backend of chat c's cycle asked for a todo tool: the handler reads
\* _chat_id() and awaits the store call with it. (The title of an added
\* item names the chat whose cycle added it.)
Td_Dispatch(c, op, todo_id) ==
    /\ todo.cycle[c] = "process"
    /\ Len(todo.calls) < MaxTodoCalls
    /\ LET chat_id == ChatIdOf(todo)
           t == CASE op = "todo_add" -> TodoAdd(todo, chat_id, c)
                  [] op = "todo_list" -> todo
                  [] op = "todo_complete" -> TodoComplete(todo, chat_id, todo_id)
                  [] op = "todo_delete" -> TodoDelete(todo, chat_id, todo_id)
           touched == CASE op = "todo_add" -> {todo.next_id}
                        [] op = "todo_list" -> TodoList(todo, chat_id)
                        [] OTHER -> {todo.todos[i].id : i \in TodoRows(todo, chat_id, todo_id)}
       IN  todo' = [t EXCEPT !.calls = Append(@, [cycle |-> c, chat_id |-> chat_id,
                                                  op |-> op, touched |-> touched])]
    /\ TodoFrame

NextTodo ==
    \/ \E c \in Chats : Td_BeginCycle(c)
    \/ \E c \in Chats : Td_EndCycle(c)
    \/ \E c \in Chats, op \in TodoOps, todo_id \in 1..MaxTodoCalls : Td_Dispatch(c, op, todo_id)

SpecTodo == Init /\ [][NextTodo]_vars

(***************************************************************************)
(* C38: a todo tool called in the cycle of chat c reads and writes only    *)
(* todo items of chat c: the chat id the handler uses is that of the       *)
(* cycle that issued the call, and every item belongs to the chat whose    *)
(* cycle added it. Violated: chat_id_ref is one cell shared by all chat    *)
(* tasks, and the cycle of another chat may have set it since.             *)
(***************************************************************************)
C38_TodoOwnChat ==
    /\ \A i \in 1..Len(todo.calls) : todo.calls[i].chat_id = todo.calls[i].cycle
    /\ \A i \in 1..Len(todo.todos) : todo.todos[i].chat_id = todo.todos[i].title

(***************************************************************************)
(* The CLI executor (executor.py): one cycle of _process_impl, from the    *)
(* run of `claude -p` to the saved turn and the sent response. A text is   *)
(* a sequence of characters; Python's None is the session id "None".       *)
(***************************************************************************)
MaxCycles == 2          \* cycles of one run
MaxLines == 2           \* JSON lines the child writes in one run

ExecTexts == {<<>>, <<" ">>, <<"a">>}
SessionIds == {"None", "s1"}
\* the JSON objects of the stream that _read_stream tells apart
StreamMsgs ==
    [type : {"system"}, session_id : SessionIds, result : {<<>>}]
      \cup [type : {"assistant"}, session_id : {"None"}, result : {<<>>}]
      \cup [type : {"result"}, session_id : SessionIds, result : ExecTexts]
Streams == UNION {[1..n -> StreamMsgs] : n \in 0..MaxLines}

\* a truthy session id (not None)
Truthy(session_id) == session_id # "None"

\* str.strip()
RECURSIVE RStripWhitespace(_)
RStripWhitespace(text) ==
    IF text # <<>> /\ text[Len(text)] \in {Newline, " "}
      THEN RStripWhitespace(SubSeq(text, 1, Len(text) - 1)) ELSE text
Strip(text) == RStripWhitespace(LStripWhitespace(text))

\* _read_stream: the result text and session id after the lines read
RECURSIVE ReadStream(_, _, _)
ReadStream(lines, result_text, session_id) ==
    IF lines = <<>> THEN [result_text |-> result_text, session_id |-> session_id]
    ELSE LET msg == Head(lines)
         IN  CASE msg.type = "system" ->
                    ReadStream(Tail(lines), result_text, msg.session_id)
               [] msg.type = "result" ->
                    ReadStream(Tail(lines), msg.result,
                               IF ~Truthy(session_id) THEN msg.session_id ELSE session_id)
               [] OTHER -> ReadStream(Tail(lines), result_text, session_id)

\* how the child of _run_claude ends
RunEnds == {"exit 0", "exit 1", "timeout"}

\* how the child of _resume_session ends and what it wrote to stdout:
\* a JSON object with a result string, with a null result or with no result,
\* another JSON value, or text that is not JSON
ResumeEnds ==
    [kind : {"spawn error", "timeout", "exit 1"}, result : {<<>>}]
      \cup [kind : {"object", "text"}, result : ExecTexts]
      \cup [kind : {"object null", "object no result", "not an object"}, result : {<<>>}]

\* _resume_session: what it returns (none: Python's None) or that it raises
ResumeSession(end) ==
    CASE end.kind = "spawn error" -> [raises |-> TRUE, none |-> FALSE, text |-> <<>>]
      [] end.kind \in {"timeout", "exit 1"} -> [raises |-> FALSE, none |-> FALSE, text |-> <<>>]
      [] end.kind = "object" -> [raises |-> FALSE, none |-> FALSE, text |-> end.result]
      [] end.kind = "object no result" -> [raises |-> FALSE, none |-> FALSE, text |-> <<>>]
      [] end.kind = "object null" -> [raises |-> FALSE, none |-> TRUE, text |-> <<>>]
      [] end.kind = "not an object" -> [raises |-> TRUE, none |-> FALSE, text |-> <<>>]
      [] end.kind = "text" -> [raises |-> FALSE, none |-> FALSE, text |-> Strip(end.result)]

\* `if not result_text.strip() and session_id`
NeedsResume(result_text, session_id) == Strip(result_text) = <<>> /\ Truthy(session_id)

ExecFrame == UNCHANGED <<MainVars, dialog, retry, gate, split, api, todo>>

\* the except branch of _process_impl: save_fallback, then re-raise what
\* the step named by `raised` has raised
ExecFailed(e, raised) == [e EXCEPT !.pc = "idle", !.last = raised, !.fallbacks = @ + 1]

\* process(): steps 1 to 4, the run of `claude -p`
X_Run(lines, end) ==
    /\ exec.pc = "idle"
    /\ exec.cycles < MaxCycles
    /\ LET read == ReadStream(lines, <<>>, "None")
           begun == [exec EXCEPT !.cycles = @ + 1, !.lines = lines, !.resumes = 0,
                                 !.resumed = "none",
                                 !.result_text = read.result_text,
                                 !.session_id = read.session_id]
       IN  exec' = IF end # "exit 0" THEN ExecFailed(begun, "_run_claude raised")
                   ELSE [begun EXCEPT !.pc = IF NeedsResume(read.result_text, read.session_id)
                                               THEN "resume" ELSE "save"]
    /\ ExecFrame

\* step 5: the resume invocation, and the test of its text at line 77
X_Resume(end) ==
    /\ exec.pc = "resume"
    /\ LET r == ResumeSession(end)
           ran == [exec EXCEPT !.resumes = @ + 1, !.resumed = end.kind]
       IN  exec' = IF r.raises THEN ExecFailed(ran, "_resume_session raised")
                   ELSE IF r.none THEN ExecFailed(ran, "result_text.strip raised")
                   ELSE [ran EXCEPT !.pc = "save", !.result_text = r.text]
    /\ ExecFrame

\* steps 5 (the sentinel) to 7: save_turn, clear_fallback, send_response
X_Save(store_ok, send_ok) ==
    /\ exec.pc = "save"
    /\ LET result_text == IF Strip(exec.result_text) = <<>> THEN NoResponse
                          ELSE exec.result_text
           turn == [exec EXCEPT !.result_text = result_text,
                                 !.saved = Append(@, result_text)]
       IN  exec' = IF ~store_ok THEN ExecFailed([exec EXCEPT !.result_text = result_text],
                                               "save_turn raised")
                   ELSE IF ~send_ok THEN ExecFailed(turn, "send_response raised")
                   ELSE [turn EXCEPT !.pc = "idle", !.last = "success",
                                      !.sent = Append(@, result_text)]
    /\ ExecFrame

NextExec ==
    \/ \E lines \in Streams, end \in RunEnds : X_Run(lines, end)
    \/ \E end \in ResumeEnds : X_Resume(end)
    \/ \E store_ok \in BOOLEAN, send_ok \in BOOLEAN : X_Save(store_ok, send_ok)

SpecExec == Init /\ [][NextExec]_vars

\* the resume invocation of the cycle came to no text
CameToNothing ==
    exec.resumed \in {"spawn error", "timeout", "exit 1", "object null", "object no result",
                      "not an object"}
\* the cycle with a resume invocation has ended, and neither the history
\* store nor the send has failed
EndedAfterResume ==
    /\ exec.pc = "idle"
    /\ exec.resumed # "none"
    /\ exec.last \notin {"save_turn raised", "send_response raised"}

(***************************************************************************)
(* C39: in a cycle of the CLI executor the resume invocation runs at most  *)
(* once, and only when the text read from the stream is empty and a        *)
(* session id was captured; a cycle in which it ran ends as a success with *)
(* the saved and sent response, which is "(no response)" when the resume   *)
(* failed, timed out or gave an empty text. Violated: a resume that cannot *)
(* be spawned or that prints JSON other than an object with a string       *)
(* result raises out of the cycle.                                         *)
(***************************************************************************)
C39_ResumeFallsThrough ==
    /\ exec.resumes <= 1
    /\ exec.resumes = 1 =>
          LET read == ReadStream(exec.lines, <<>>, "None")
          IN  Strip(read.result_text) = <<>> /\ Truthy(read.session_id)
    /\ EndedAfterResume =>
          /\ exec.last = "success"
          /\ exec.saved # <<>> /\ exec.saved[Len(exec.saved)] = exec.result_text
          /\ exec.sent # <<>> /\ exec.sent[Len(exec.sent)] = exec.result_text
          /\ Strip(exec.result_text) # <<>>
          /\ CameToNothing => exec.result_text = NoResponse

(***************************************************************************)
(* C40: the "seen" reaction is sent on acceptance only. Every message for  *)
(* which a reaction was attempted, set or not, has been forwarded to       *)
(* on_message, and a handled message that was not forwarded (empty text,   *)
(* voice too long, failed or empty transcription) has no reaction.         *)
(* Violated: handle_voice reacts before it extracts the event.             *)
(***************************************************************************)
C40_SeenOnAcceptanceOnly ==
    /\ \A j \in 1..Len(gate.reactions) :
          \E k \in 1..Len(gate.on_message) :
              gate.on_message[k].message_id = gate.reactions[j].message_id
    /\ \A i \in 1..Len(gate.updates) :
          (\A k \in 1..Len(gate.on_message) : gate.on_message[k].message_id # i)
            => \A j \in 1..Len(gate.reactions) : gate.reactions[j].message_id # i
====
